---- MODULE Spec2Model ----
(***************************************************************************)
(* A model of qaie: the LLM response parsers, provider detection, the CLI  *)
(* entry points and the page-ready waiter.                                  *)
(*                                                                          *)
(* Texts are sequences of tokens.  The tokens are the pieces of text the    *)
(* code's regular expressions and JSON.parse tell apart:                    *)
(*   "F"     three backticks                                                *)
(*   "jso"   the letters jso          "n"  the letter n                     *)
(*   "NL"    a newline (whitespace)   "Q"  a double quote                   *)
(*   "OBJ"   the text of a JSON object without a files member               *)
(*   "FILES" the text of a JSON object with a files member                  *)
(*   "ARR"   the text of a JSON array                                       *)
(***************************************************************************)
EXTENDS Integers, Sequences, FiniteSets, TLC

VARIABLES
    text,       \* the raw LLM response handed to the parsers
    fenced,     \* the same response wrapped in a fenced code block
    res,        \* parseResponse(text)
    resF,       \* parseResponse(fenced)
    files,      \* parseGeneratedFiles(text)
    filesF,     \* parseGeneratedFiles(fenced)
    ppc         \* position of the parsing run

parseVars == <<text, fenced, res, resF, files, filesF, ppc>>

VARIABLES
    env,        \* process.env: <<"plain"|"input", NAME>> -> value ("" when unset or empty)
    detected,   \* what detectProvider returned to getProvider
    provider,   \* the provider instance getProvider created
    provError,  \* the message of the error the provider code raised
    method,     \* the provider method called last
    requests,   \* LLM requests issued by the provider instance
    llmText,    \* the text the LLM answered with
    outcome,    \* returned | raised, of the provider method
    report,     \* the value the provider method returned
    vpc         \* position of the provider run

provVars == <<env, detected, provider, provError, method, requests, llmText,
              outcome, report, vpc>>

VARIABLES
    cmd,        \* the entry point run: scan | review | generate | visual | benchmark
    opts,       \* its command line and the state of the world it looks at
    pc,         \* position of the run
    cprov,      \* the provider instance the run obtained
    calls,      \* the external calls made so far, in order
    raised,     \* the message of the error raised in the run ("" when none)
    printed,    \* what the run printed
    exitCode,   \* the process exit code (-1 while running)
    cliReport,  \* the review report the review command got
    genResult,  \* the value generateTests returned
    todo,       \* sources or benchmark cases still to process
    results,    \* the benchmark results so far
    detectedCount, \* the benchmark's counter of detected cases
    reportFile     \* the lines written to review-report.md

cliVars == <<cmd, opts, pc, cprov, calls, raised, printed, exitCode, cliReport,
             genResult, todo, results, detectedCount, reportFile>>

VARIABLES
    clock,            \* Date.now(), in ticks of 100 ms
    readyOptions,     \* the options waitForPageReady was called with, in ticks
    pendingRequests,  \* the Map of tracked requests, as a set of entries
    issued,           \* how many requests the page has started
    inflight,         \* the requests of the page with no response or failure yet
    listening,        \* whether the three page listeners are registered
    wakeAt,           \* when the timer being awaited fires
    readyResult,      \* the value waitForPageReady returned
    readyError,       \* the error waitForPageReady raised ("" when none)
    rpc               \* position of the waitForPageReady call

readyVars == <<clock, readyOptions, pendingRequests, issued, inflight, listening,
               wakeAt, readyResult, readyError, rpc>>

VARIABLES
    capFn,          \* the capture function under way: capturePage | capturePageData
    capViewports,   \* the viewport names the caller asked for
    capI,           \* position in the viewport list (the for..of loop)
    capPc,          \* position of the call
    browser,        \* the browser capturePage launched: none | open | closed
    closes,         \* how often browser.close() was called
    pageViewport,   \* page.viewportSize(): a size, or null
    entryViewport,  \* page.viewportSize() when the current call began
    originalViewport, \* the size capturePageData saved
    screenshots,    \* the screenshots pushed so far
    warned,         \* the names console.warn reported as unknown
    capCall,        \* the number of the current call on this page
    attached,       \* the calls whose three listeners are on the page
    consoleErrors,  \* per call: how many events its consoleErrors list holds
    returnedErrors, \* per call: the length of the list when it was returned
    capStatus,      \* per call: running | returned | raised
    capError        \* the message of the error the call raised ("" when none)

capVars == <<capFn, capViewports, capI, capPc, browser, closes, pageViewport,
             entryViewport, originalViewport, screenshots, warned, capCall,
             attached, consoleErrors, returnedErrors, capStatus, capError>>

VARIABLES
    dom,         \* the page's visible interactive elements, in document order
    nextEl,      \* the next element the page will create
    qaRefs,      \* window.__qaRefs: reference number N (token e<N>) -> element
    snapCount,   \* snapshots taken so far
    prevLabels,  \* element -> reference, in the snapshot before the last
    lastLabels,  \* element -> reference, in the last snapshot
    lastRefCount, \* refCount of the last snapshot
    quiet,       \* no DOM mutation and no navigation since the last snapshot
    quietPair,   \* the same, between the last two snapshots
    handedOut,   \* the <<reference, element>> pairs snapshots of this page returned
    refCall      \* the last clickByRef / typeByRef call and how it ended

ariaVars == <<dom, nextEl, qaRefs, snapCount, prevLabels, lastLabels,
              lastRefCount, quiet, quietPair, handedOut, refCall>>

VARIABLES
    site,          \* the site crawled
    crawlPc,       \* where crawlSite is
    toVisit,       \* the queue of URLs to visit
    visited,       \* the set of URLs taken from the queue
    navigated,     \* the URLs handed to page.goto, in order
    failedLoads,   \* how many times the catch clause of the loop ran
    pages,         \* the PageRecords collected
    interactions,  \* the interactions collected
    crawlStatus,   \* "running", "returned" or "raised"
    crawlError,    \* the error crawlSite raised
    crawlBrowser,  \* the browser crawlSite launched: none | open | closing | closed
    startValid     \* whether new URL(url) accepts the start URL

crawlVars == <<site, crawlPc, toVisit, visited, navigated, failedLoads, pages,
               interactions, crawlStatus, crawlError, crawlBrowser, startValid>>

VARIABLES
    baselineDir,   \* the baseline directory: file name -> image, or NoDir
    currentDir,    \* the current directory
    failThreshold, \* options.failThreshold, in hundredths of a percent
    cmpPc,         \* where compareDirectories is
    allFiles,      \* the file names still to be compared, in iteration order
    cmpResults,    \* results
    passed,
    failed,
    missing,
    newImages,
    summary,       \* the summary returned
    cmpStatus      \* "running", "returned" or "raised"

cmpVars == <<baselineDir, currentDir, failThreshold, cmpPc, allFiles, cmpResults,
             passed, failed, missing, newImages, summary, cmpStatus>>

VARIABLES
    expectedDescription, \* the description of the expected issue, as characters
    actualDescription,   \* the description of the reported issue, as characters
    matchPc,             \* "call" before matchDescription ran, "done" after
    keywords,            \* the keywords matchDescription extracted
    descMatch            \* what matchDescription returned

matchVars == <<expectedDescription, actualDescription, matchPc, keywords, descMatch>>

VARIABLES
    demoLoaded,     \* DOMContentLoaded has fired on the demo page
    demoListeners,  \* the elements that got a click listener
    demoTimer,      \* when the delayed timer fires, -1 when none is set
    demoClock,      \* seconds since the page was loaded
    demoClicks,     \* clicks made, per element
    demoErrors      \* the identifiers whose ReferenceError has fired

demoVars == <<demoLoaded, demoListeners, demoTimer, demoClock, demoClicks, demoErrors>>

VARIABLES
    gcPc,         \* where gatherContext is: "loop" or "done"
    gcIndex,      \* how many changed files the loop has taken
    gcCount,      \* changedFiles.length
    totalChars,   \* gatherContext's counter
    contextFiles  \* context.files: path -> length of the text stored

gcVars == <<gcPc, gcIndex, gcCount, totalChars, contextFiles>>

VARIABLES
    networkErrors,  \* the networkErrors list of a CaptureData
    promptLines,    \* the lines buildPrompt rendered for it
    reportLines,    \* the lines generateMarkdownReport rendered for it
    rendered        \* the consumers that have run

renderVars == <<networkErrors, promptLines, reportLines, rendered>>

VARIABLES
    logClock,      \* Date.now(), in seconds
    logRequests,   \* the logger's requests list
    logFailures,   \* the logger's failures list: which entry, and why
    slowRequests   \* the logger's slowRequests list, as indices of entries

loggerVars == <<logClock, logRequests, logFailures, slowRequests>>

vars == <<parseVars, provVars, cliVars, readyVars, capVars, ariaVars, crawlVars, cmpVars, matchVars, demoVars, gcVars, renderVars, loggerVars>>

\* what the actions of one part leave alone
ParseFrame == UNCHANGED <<provVars, cliVars, readyVars, capVars, ariaVars, crawlVars, cmpVars, matchVars, demoVars, gcVars, renderVars, loggerVars>>
ProvFrame == UNCHANGED <<parseVars, cliVars, readyVars, capVars, ariaVars, crawlVars, cmpVars, matchVars, demoVars, gcVars, renderVars, loggerVars>>
CliFrame == UNCHANGED <<parseVars, provVars, readyVars, capVars, ariaVars, crawlVars, cmpVars, matchVars, demoVars, gcVars, renderVars, loggerVars>>
ReadyFrame == UNCHANGED <<parseVars, provVars, cliVars, capVars, ariaVars, crawlVars, cmpVars, matchVars, demoVars, gcVars, renderVars, loggerVars>>
CapFrame == UNCHANGED <<parseVars, provVars, cliVars, readyVars, ariaVars, crawlVars, cmpVars, matchVars, demoVars, gcVars, renderVars, loggerVars>>
AriaFrame == UNCHANGED <<parseVars, provVars, cliVars, readyVars, capVars, crawlVars, cmpVars, matchVars, demoVars, gcVars, renderVars, loggerVars>>
CrawlFrame == UNCHANGED <<parseVars, provVars, cliVars, readyVars, capVars, ariaVars, cmpVars, matchVars, demoVars, gcVars, renderVars, loggerVars>>
CompareFrame == UNCHANGED <<parseVars, provVars, cliVars, readyVars, capVars, ariaVars, crawlVars, matchVars, demoVars, gcVars, renderVars, loggerVars>>
MatchFrame == UNCHANGED <<parseVars, provVars, cliVars, readyVars, capVars, ariaVars, crawlVars, cmpVars, demoVars, gcVars, renderVars, loggerVars>>
DemoFrame == UNCHANGED <<parseVars, provVars, cliVars, readyVars, capVars, ariaVars, crawlVars, cmpVars, matchVars, gcVars, renderVars, loggerVars>>
GatherFrame == UNCHANGED <<parseVars, provVars, cliVars, readyVars, capVars, ariaVars, crawlVars, cmpVars, matchVars, demoVars, renderVars, loggerVars>>
RenderFrame == UNCHANGED <<parseVars, provVars, cliVars, readyVars, capVars, ariaVars, crawlVars, cmpVars, matchVars, demoVars, gcVars, loggerVars>>
LoggerFrame == UNCHANGED <<parseVars, provVars, cliVars, readyVars, capVars, ariaVars, crawlVars, cmpVars, matchVars, demoVars, gcVars, renderVars>>

-----------------------------------------------------------------------------
(* Bounds *)

MaxLen == 4

\* most environment variables set at once
MaxEnvSet == 3

\* most issues in a review report
MaxIssues == 2

\* most changed files in a diff
MaxChanged == 2

\* most source files or benchmark cases in a run
MaxItems == 2

\* longest outer timeout of waitForPageReady, in ticks of 100 ms
MaxTimeout == 8

\* longest networkIdleTime, in ticks
MaxIdleTime == 2

\* longest nonCriticalTimeout, in ticks
MaxGrace == 3

\* most requests the page starts during one wait
MaxRequests == 2

\* longest list of viewport names handed to a capture function
MaxViewports == 2

\* most capturePageData calls on one page
MaxCalls == 2

\* most console events the page emits
MaxEvents == 2

\* most elements the page creates
MaxElements == 3

\* most snapshots taken
MaxSnapshots == 3

\* the site's pages are numbered 0 .. MaxPath
MaxPath == 11

\* most words in the description of a reported issue
MaxWords == 3

\* seconds of the demo page's life observed
MaxSeconds == 6

\* most clicks on one element of the demo page
MaxClicks == 2

\* most changed files of a review
MaxFiles == 5

\* most network errors in one CaptureData
MaxErrors == 2

\* most requests the network logger records
MaxLogged == 2

\* seconds of the network logger's life observed
MaxLogTime == 5

-----------------------------------------------------------------------------
(* Texts *)

Tokens == {"F", "jso", "n", "NL", "Q", "OBJ", "FILES", "ARR"}

\* null / undefined, for variables that hold records
None == [kind |-> "none"]

RECURSIVE SeqsUpTo(_, _)
SeqsUpTo(S, k) ==
    IF k = 0 THEN {<<>>}
    ELSE LET shorter == SeqsUpTo(S, k - 1)
         IN  shorter \cup {Append(s, t) : s \in {x \in shorter : Len(x) = k - 1}, t \in S}

IsSpace(t) == t = "NL"

\* String.prototype.trim
RECURSIVE TrimLeft(_)
TrimLeft(s) ==
    IF s # <<>> /\ IsSpace(Head(s)) THEN TrimLeft(Tail(s)) ELSE s

RECURSIVE TrimRight(_)
TrimRight(s) ==
    IF s # <<>> /\ IsSpace(s[Len(s)]) THEN TrimRight(SubSeq(s, 1, Len(s) - 1)) ELSE s

Trim(s) == TrimRight(TrimLeft(s))

\* String.prototype.startsWith('```')
StartsWithFence(s) == s # <<>> /\ Head(s) = "F"

\* s.replace(/```json?\n?/g, ''): every ``` that is followed by jso, with the
\* optional n and the optional newline after it, is removed, wherever it stands.
RECURSIVE StripFenceTags(_)
StripFenceTags(s) ==
    IF s = <<>> THEN <<>>
    ELSE IF Head(s) = "F" /\ Len(s) >= 2 /\ s[2] = "jso"
         THEN LET k1 == IF Len(s) >= 3 /\ s[3] = "n" THEN 3 ELSE 2
                  k2 == IF Len(s) >= k1 + 1 /\ s[k1 + 1] = "NL" THEN k1 + 1 ELSE k1
              IN  StripFenceTags(SubSeq(s, k2 + 1, Len(s)))
         ELSE <<Head(s)>> \o StripFenceTags(Tail(s))

\* s.replace(/```\n?$/g, ''): a ``` at the very end, or before one final newline.
StripTrailingFence(s) ==
    IF Len(s) >= 2 /\ s[Len(s) - 1] = "F" /\ s[Len(s)] = "NL"
    THEN SubSeq(s, 1, Len(s) - 2)
    ELSE IF Len(s) >= 1 /\ s[Len(s)] = "F"
         THEN SubSeq(s, 1, Len(s) - 1)
         ELSE s

\* The fence removal both parsers apply when the text starts with ```
StripFences(s) ==
    IF StartsWithFence(s) THEN StripTrailingFence(StripFenceTags(s)) ELSE s

\* JSON.parse accepts: whitespace, one value, whitespace.  A value is an object,
\* an array, or a string literal (no raw newline or quote inside).
StringBody(s) == SubSeq(s, 2, Len(s) - 1)

IsStringLiteral(s) ==
    /\ Len(s) >= 2
    /\ s[1] = "Q"
    /\ s[Len(s)] = "Q"
    /\ \A i \in 2..(Len(s) - 1) : s[i] \notin {"Q", "NL"}

JsonValid(s) ==
    LET v == Trim(s)
    IN  \/ v \in {<<"OBJ">>, <<"FILES">>, <<"ARR">>}
        \/ IsStringLiteral(v)

\* The value JSON.parse returns for a valid text
JsonValue(s) ==
    LET v == Trim(s)
    IN  IF IsStringLiteral(v)
        THEN [type |-> "string", body |-> StringBody(v)]
        ELSE [type |-> v[1], body |-> <<>>]

\* parseResponse with the fallback keeping the cleaned text instead of the input
parseResponseKeepsCleaned(response) ==
    LET jsonStr == StripFences(Trim(response))
    IN  IF JsonValid(jsonStr)
        THEN [kind |-> "parsed", value |-> JsonValue(jsonStr)]
        ELSE [kind            |-> "fallback",
              summary         |-> "Failed to parse LLM response",
              bugs            |-> <<>>,
              score           |-> "null",
              recommendations |-> <<>>,
              raw_response    |-> jsonStr,
              parse_error     |-> "SyntaxError"]

\* BaseProvider.parseResponse
parseResponse(response) ==
    LET jsonStr == StripFences(Trim(response))
    IN  IF JsonValid(jsonStr)
        THEN [kind |-> "parsed", value |-> JsonValue(jsonStr)]
        ELSE [kind            |-> "fallback",
              summary         |-> "Failed to parse LLM response",
              bugs            |-> <<>>,
              score           |-> "null",
              recommendations |-> <<>>,
              raw_response    |-> response,
              parse_error     |-> "SyntaxError"]

\* parseGeneratedFiles (string responses)
parseGeneratedFiles(response) ==
    LET t == StripFences(response)
    IN  IF JsonValid(t)
        THEN LET parsed == JsonValue(t)
             IN  CASE parsed.type = "ARR"   -> [kind |-> "array", value |-> parsed]
                   [] parsed.type = "FILES" -> [kind |-> "filesMember", value |-> parsed]
                   [] OTHER                 -> [kind |-> "wrapped", value |-> parsed]
        ELSE [kind |-> "single", name |-> "generated.spec.ts", content |-> response]

\* A fenced code block around J: a ``` line with or without a language tag,
\* J, and a closing ``` line.
FenceTags == {<<>>, <<"jso", "n">>}

Fence(J, tag, finalNewline) ==
    <<"F">> \o tag \o <<"NL">> \o J \o <<"NL", "F">>
        \o (IF finalNewline THEN <<"NL">> ELSE <<>>)

-----------------------------------------------------------------------------
(* Providers: detection from the environment, construction, method calls *)

BaseNames == {"PROVIDER", "API_KEY", "ANTHROPIC_API_KEY", "OPENAI_API_KEY",
              "CODEX_API_KEY", "GEMINI_API_KEY", "OLLAMA_BASE_URL", "OLLAMA_MODEL"}

EnvVars == {"plain", "input"} \X BaseNames

ProviderValues == <<"ollama", "OpenAI", "bogus">>
OtherValues == <<"v1", "v2">>

EnvValue(var, i) ==
    IF var[2] = "PROVIDER" THEN ProviderValues[i]
    ELSE IF i = 3 THEN OtherValues[1] ELSE OtherValues[i]

RECURSIVE SubsetsUpTo(_, _)
SubsetsUpTo(S, k) ==
    IF k = 0 THEN {{}}
    ELSE LET smaller == SubsetsUpTo(S, k - 1)
         IN  smaller \cup {A \cup {x} : A \in smaller, x \in S}

\* Environments with the variables of S set
EnvsSetting(S) ==
    {[v \in EnvVars |-> IF v \in S THEN EnvValue(v, f[v]) ELSE ""] :
        f \in [S -> 1..3]}

Envs(k) == UNION {EnvsSetting(S) : S \in SubsetsUpTo(EnvVars, k)}

\* String.prototype.toLowerCase on the provider and viewport names of the model
toLowerCase(name) ==
    CASE name = "OpenAI"  -> "openai"
      [] name = "Desktop" -> "desktop"
      [] name = "TABLET"  -> "tablet"
      [] OTHER            -> name

NoOptions == [model |-> "", baseUrl |-> ""]

Detection(name, key, options) == [provider |-> name, apiKey |-> key, options |-> options]

\* a || b || default, on strings ("" is falsy)
Or(a, b) == IF a # "" THEN a ELSE b

\* detectProvider of src/providers/index.js: the INPUT_ names only
detectProvider(e) ==
    LET inp(n) == e[<<"input", n>>]
    IN  IF inp("PROVIDER") # "" /\ inp("API_KEY") # ""
        THEN Detection(toLowerCase(inp("PROVIDER")), inp("API_KEY"), NoOptions)
        ELSE IF inp("ANTHROPIC_API_KEY") # ""
        THEN Detection("anthropic", inp("ANTHROPIC_API_KEY"), NoOptions)
        ELSE IF inp("OPENAI_API_KEY") # ""
        THEN Detection("openai", inp("OPENAI_API_KEY"), NoOptions)
        ELSE IF inp("CODEX_API_KEY") # ""
        THEN Detection("codex", inp("CODEX_API_KEY"),
                       [model |-> "codex-mini-latest", baseUrl |-> ""])
        ELSE IF inp("GEMINI_API_KEY") # ""
        THEN Detection("gemini", inp("GEMINI_API_KEY"), NoOptions)
        ELSE IF inp("PROVIDER") = "ollama"
        THEN Detection("ollama", "",
                       [model   |-> Or(inp("OLLAMA_MODEL"), "llava"),
                        baseUrl |-> Or(inp("OLLAMA_BASE_URL"), "http://localhost:11434")])
        ELSE None

\* detectProvider of the second copy of the providers index: plain name first,
\* then the INPUT_ name
detectProviderBothNames(e) ==
    LET both(n) == Or(e[<<"plain", n>>], e[<<"input", n>>])
    IN  IF both("PROVIDER") # "" /\ both("API_KEY") # ""
        THEN Detection(toLowerCase(both("PROVIDER")), both("API_KEY"), NoOptions)
        ELSE IF both("ANTHROPIC_API_KEY") # ""
        THEN Detection("anthropic", both("ANTHROPIC_API_KEY"), NoOptions)
        ELSE IF both("OPENAI_API_KEY") # ""
        THEN Detection("openai", both("OPENAI_API_KEY"), NoOptions)
        ELSE IF both("CODEX_API_KEY") # ""
        THEN Detection("codex", both("CODEX_API_KEY"),
                       [model |-> "codex-mini-latest", baseUrl |-> ""])
        ELSE IF both("GEMINI_API_KEY") # ""
        THEN Detection("gemini", both("GEMINI_API_KEY"), NoOptions)
        ELSE IF both("PROVIDER") = "ollama"
        THEN Detection("ollama", "",
                       [model   |-> Or(both("OLLAMA_MODEL"), "llava"),
                        baseUrl |-> Or(both("OLLAMA_BASE_URL"), "http://localhost:11434")])
        ELSE None

\* The PROVIDERS table: selectable name -> class
PROVIDERS ==
    [anthropic |-> "AnthropicProvider",
     openai    |-> "OpenAIProvider",
     codex     |-> "OpenAIProvider",
     gemini    |-> "GeminiProvider",
     ollama    |-> "OllamaProvider"]

\* The methods each class defines itself
OwnMethods(class) ==
    CASE class = "AnthropicProvider" -> {"analyze"}
      [] class = "OpenAIProvider"    -> {"analyze", "reviewCode"}
      [] class = "GeminiProvider"    -> {"analyze", "reviewCode"}
      [] class = "OllamaProvider"    -> {"analyze"}

\* The methods of BaseProvider; its analyze and reviewCode only throw
BaseMethods == {"analyze", "reviewCode", "buildPrompt", "parseResponse",
                "buildReviewPrompt"}

\* own: the class's implementation runs; base: BaseProvider's throwing stub
\* runs; missing: the call is a TypeError (not a function)
Resolve(class, m) ==
    IF m \in OwnMethods(class) THEN "own"
    ELSE IF m \in BaseMethods THEN "base"
    ELSE "missing"

\* createProvider: the instance, or the error for an unknown name
createProvider(d) ==
    IF toLowerCase(d.provider) \in DOMAIN PROVIDERS
    THEN [ok |-> TRUE, name |-> d.provider,
          class |-> PROVIDERS[toLowerCase(d.provider)],
          apiKey |-> d.apiKey, options |-> d.options]
    ELSE [ok |-> FALSE, error |-> "Unknown provider"]

\* getProvider: detect, then create
getProvider(e) ==
    LET d == detectProvider(e)
    IN  IF d = None THEN [ok |-> FALSE, error |-> "No API key provided"]
        ELSE createProvider(d)

\* What the LLM may answer: a report object, the same fenced, or prose
LlmAnswers == {<<"OBJ">>, <<"F", "jso", "n", "NL", "OBJ", "NL", "F">>, <<"n", "n">>}

EmptyEnv == [v \in EnvVars |-> ""]

InitProv ==
    /\ env \in Envs(MaxEnvSet)
    /\ detected = None
    /\ provider = None
    /\ provError = ""
    /\ method = "none"
    /\ requests = 0
    /\ llmText = <<>>
    /\ outcome = "none"
    /\ report = None
    /\ vpc = "start"

\* getProvider() succeeds
GetProviderOk ==
    /\ vpc = "start"
    /\ getProvider(env).ok
    /\ detected' = detectProvider(env)
    /\ provider' = getProvider(env)
    /\ vpc' = "ready"
    /\ UNCHANGED <<env, provError, method, requests, llmText, outcome, report>>
    /\ ProvFrame

\* getProvider() throws
GetProviderFails ==
    /\ vpc = "start"
    /\ ~getProvider(env).ok
    /\ detected' = detectProvider(env)
    /\ provError' = getProvider(env).error
    /\ vpc' = "failed"
    /\ UNCHANGED <<env, provider, method, requests, llmText, outcome, report>>
    /\ ProvFrame

\* provider[m](...) on a method the class implements: one request; the answer
\* goes through parseResponse, a failed request is raised to the caller
CallImplemented(m, llmOk, answer) ==
    /\ vpc = "ready"
    /\ Resolve(provider.class, m) = "own"
    /\ method' = m
    /\ requests' = requests + 1
    /\ IF llmOk
       THEN /\ llmText' = answer
            /\ outcome' = "returned"
            /\ report' = parseResponse(answer)
            /\ provError' = provError
       ELSE /\ llmText' = <<>>
            /\ outcome' = "raised"
            /\ report' = None
            /\ provError' = "request failed"
    /\ vpc' = "called"
    /\ UNCHANGED <<env, detected, provider>>
    /\ ProvFrame

\* provider[m](...) on a method the class does not implement
CallUnimplemented(m) ==
    /\ vpc = "ready"
    /\ Resolve(provider.class, m) # "own"
    /\ method' = m
    /\ outcome' = "raised"
    /\ provError' = IF Resolve(provider.class, m) = "base"
                    THEN "must be implemented by subclass"
                    ELSE "is not a function"
    /\ vpc' = "called"
    /\ UNCHANGED <<env, detected, provider, requests, llmText, report>>
    /\ ProvFrame

CalledMethods == {"analyze", "reviewCode", "generateTests"}

NextProv ==
    \/ GetProviderOk
    \/ GetProviderFails
    \/ \E m \in CalledMethods, ok \in BOOLEAN, a \in LlmAnswers :
          CallImplemented(m, ok, a)
    \/ \E m \in CalledMethods : CallUnimplemented(m)

-----------------------------------------------------------------------------
(* The parsing run: a response arrives, is parsed by both parsers, then the  *)
(* same response arrives fenced and is parsed again.                         *)

InitParse ==
    /\ text \in SeqsUpTo(Tokens, MaxLen)
    /\ fenced = <<>>
    /\ res = None
    /\ resF = None
    /\ files = None
    /\ filesF = None
    /\ ppc = "received"

ParseResponseCall ==
    /\ ppc = "received"
    /\ res' = parseResponse(text)
    /\ ppc' = "analysed"
    /\ UNCHANGED <<text, fenced, resF, files, filesF>>
    /\ ParseFrame

ParseGeneratedFilesCall ==
    /\ ppc = "analysed"
    /\ files' = parseGeneratedFiles(text)
    /\ ppc' = "parsed"
    /\ UNCHANGED <<text, fenced, res, resF, filesF>>
    /\ ParseFrame

ParseFenced(tag, finalNewline) ==
    /\ ppc = "parsed"
    /\ fenced' = Fence(text, tag, finalNewline)
    /\ resF' = parseResponse(fenced')
    /\ filesF' = parseGeneratedFiles(fenced')
    /\ ppc' = "fencedParsed"
    /\ UNCHANGED <<text, res, files>>
    /\ ParseFrame

NextParse ==
    \/ ParseResponseCall
    \/ ParseGeneratedFilesCall
    \/ \E tag \in FenceTags, nl \in BOOLEAN : ParseFenced(tag, nl)

-----------------------------------------------------------------------------
(* The command line entry points: src/index.js (scan, review, generate), the *)
(* visual-regression CLI and the benchmark runner.                           *)

Commands == {"scan", "review", "generate", "visual", "benchmark"}

DefaultOpts ==
    [url |-> TRUE, pr |-> FALSE, json |-> FALSE, target |-> "none",
     dryRun |-> FALSE, sub |-> "help", providerArg |-> ""]

\* generate targets: none given, a URL, a source file, a directory with
\* eligible sources, a directory without, a path that does not exist
Targets == {"none", "url", "file", "dir", "dir_empty", "missing"}

OptsFor(c) ==
    CASE c = "scan"      -> {[DefaultOpts EXCEPT !.url = u] : u \in BOOLEAN}
      [] c = "review"    -> {[DefaultOpts EXCEPT !.pr = p, !.json = j] :
                                p \in BOOLEAN, j \in BOOLEAN}
      [] c = "generate"  -> {[DefaultOpts EXCEPT !.target = t, !.dryRun = d] :
                                t \in Targets, d \in BOOLEAN}
      [] c = "visual"    -> {[DefaultOpts EXCEPT !.sub = x] :
                                x \in {"compare", "update-baseline", "help"}}
      [] c = "benchmark" -> {[DefaultOpts EXCEPT !.providerArg = a, !.json = j] :
                                a \in {"", "gemini"}, j \in BOOLEAN}

EnvWith(a) == [v \in EnvVars |-> IF v \in DOMAIN a THEN a[v] ELSE ""]

\* The environments the entry points are run in
CliEnvs ==
    {EmptyEnv,
     EnvWith(<<"plain", "ANTHROPIC_API_KEY">> :> "v1"),
     EnvWith(<<"input", "ANTHROPIC_API_KEY">> :> "v1"),
     EnvWith(<<"input", "OPENAI_API_KEY">> :> "v1"),
     EnvWith(<<"input", "CODEX_API_KEY">> :> "v1"),
     EnvWith(<<"input", "GEMINI_API_KEY">> :> "v1"),
     EnvWith(<<"input", "PROVIDER">> :> "ollama"),
     EnvWith(<<"input", "PROVIDER">> :> "bogus" @@ <<"input", "API_KEY">> :> "v1")}

Severities == {"critical", "high", "medium", "low", "CRITICAL"}

\* parseResponse's fallback object as a review report: it has no issues list
FallbackReport ==
    [kind |-> "fallback", hasIssues |-> FALSE, issues |-> <<>>, score |-> "null"]

\* reviewPR's report for an empty diff
NoChangesReport ==
    [kind |-> "nochanges", hasIssues |-> TRUE, issues |-> <<>>, score |-> "100"]

\* The reports a provider's reviewCode may return
ReviewReports ==
    {FallbackReport,
     [kind |-> "parsed", hasIssues |-> FALSE, issues |-> <<>>, score |-> "n"]}
    \cup {[kind |-> "parsed", hasIssues |-> TRUE, issues |-> i, score |-> "n"] :
            i \in SeqsUpTo(Severities, MaxIssues)}

\* the count with 'high' taken for critical as well, as in main's critical_bugs
\* output
CountCriticalsOrHigh(rep) ==
    IF rep.hasIssues
    THEN Cardinality({i \in DOMAIN rep.issues : rep.issues[i] \in {"critical", "high"}})
    ELSE 0

\* report.issues?.filter((i) => i.severity === 'critical').length || 0
CountCriticals(rep) ==
    IF rep.hasIssues
    THEN Cardinality({i \in DOMAIN rep.issues : rep.issues[i] = "critical"})
    ELSE 0

\* a line of review-report.md: its fixed text and the value set into it
Line(fixed, value) == [text |-> fixed, arg |-> value]

\* the summary of a report; parseResponse's fallback has its own
SummaryOf(rep) ==
    IF rep.kind = "fallback" THEN "Failed to parse LLM response"
    ELSE IF rep.kind = "nochanges" THEN "No changes found."
    ELSE "summary"

NoIssuesSentence == "No issues found. Code looks good!"

\* formatReviewMarkdown: heading, score, summary, then the issues or, when
\* report.issues is missing or empty, the sentence that none were found
formatReviewMarkdown(rep) ==
    <<Line("# Code Review Report", ""),
      Line("**Score:** /100", rep.score),
      Line("## Summary", ""),
      Line(SummaryOf(rep), "")>>
    \o (IF rep.hasIssues /\ Len(rep.issues) > 0
        THEN <<Line("## Issues", "")>> \o
             [i \in 1 .. Len(rep.issues) |-> Line("**Severity:** ", rep.issues[i])]
        ELSE <<Line("## Issues", ""), Line(NoIssuesSentence, "")>>)
    \o <<Line("---", ""), Line("*Generated by qai*", "")>>

ConfigErrors == {"No API key provided", "Unknown provider"}

InitCli ==
    /\ cmd \in Commands
    /\ opts \in OptsFor(cmd)
    /\ env \in CliEnvs
    /\ pc = "start"
    /\ cprov = None
    /\ calls = <<>>
    /\ raised = ""
    /\ printed = {}
    /\ exitCode = -1
    /\ cliReport = None
    /\ genResult = None
    /\ todo = 0
    /\ results = <<>>
    /\ detectedCount = 0
    /\ reportFile = <<>>

\* process.exit(code), or the process ending by itself (code 0)
Exit(code) ==
    /\ exitCode' = code
    /\ pc' = "exited"

\* an error is thrown and travels to the entry point's handler
Throw(msg) ==
    /\ raised' = msg
    /\ pc' = "caught"

(* scan: main of src/index.js *)

\* main: no URL configured
ScanNoUrl ==
    /\ cmd = "scan" /\ pc = "start"
    /\ ~opts.url
    /\ printed' = printed \cup {"URL is required"}
    /\ Exit(1)
    /\ UNCHANGED <<reportFile, detectedCount, cmd, opts, cprov, calls, raised, cliReport, genResult, todo, results>>
    /\ CliFrame

\* main: getProvider() is the first statement of the try block
ScanGetProvider ==
    /\ cmd = "scan" /\ pc = "start"
    /\ opts.url
    /\ IF getProvider(env).ok
       THEN /\ cprov' = getProvider(env)
            /\ pc' = "capture"
            /\ raised' = raised
       ELSE /\ Throw(getProvider(env).error)
            /\ cprov' = cprov
    /\ UNCHANGED <<reportFile, detectedCount, cmd, opts, calls, printed, exitCode, cliReport, genResult, todo, results>>
    /\ CliFrame

\* main: capturePage launches the browser
ScanCapture(ok) ==
    /\ cmd = "scan" /\ pc = "capture"
    /\ calls' = Append(calls, "browser")
    /\ IF ok THEN pc' = "analyze" /\ raised' = raised
             ELSE Throw("capture failed")
    /\ UNCHANGED <<reportFile, detectedCount, cmd, opts, cprov, printed, exitCode, cliReport, genResult, todo, results>>
    /\ CliFrame

\* main: provider.analyze (every class implements it)
ScanAnalyze(ok) ==
    /\ cmd = "scan" /\ pc = "analyze"
    /\ IF Resolve(cprov.class, "analyze") = "own"
       THEN /\ calls' = Append(calls, "llm")
            /\ IF ok THEN pc' = "write" /\ raised' = raised
                     ELSE Throw("request failed")
       ELSE /\ calls' = calls
            /\ Throw("must be implemented by subclass")
    /\ UNCHANGED <<reportFile, detectedCount, cmd, opts, cprov, printed, exitCode, cliReport, genResult, todo, results>>
    /\ CliFrame

\* main: the report files are written, the summary printed, the process ends
ScanWrite(ok) ==
    /\ cmd = "scan" /\ pc = "write"
    /\ IF ok
       THEN /\ printed' = printed \cup {"summary"}
            /\ Exit(0)
            /\ raised' = raised
       ELSE /\ Throw("write failed")
            /\ UNCHANGED <<printed, exitCode>>
    /\ UNCHANGED <<reportFile, detectedCount, cmd, opts, cprov, calls, cliReport, genResult, todo, results>>
    /\ CliFrame

\* main: catch (error) { console.error(message); console.error(stack); exit(1) }
ScanCatch ==
    /\ cmd = "scan" /\ pc = "caught"
    /\ printed' = printed \cup {"message", "stack"}
    /\ Exit(1)
    /\ UNCHANGED <<reportFile, detectedCount, cmd, opts, cprov, calls, raised, cliReport, genResult, todo, results>>
    /\ CliFrame

(* review: runReview of src/index.js and reviewPR *)

\* reviewPR step 1: getDiff runs gh (a PR number was given) or git
ReviewGetDiff(ok, empty) ==
    /\ cmd = "review" /\ pc = "start"
    /\ calls' = Append(calls, IF opts.pr THEN "gh" ELSE "git")
    /\ IF ~ok THEN Throw("Failed to get diff") /\ cliReport' = cliReport
       ELSE IF empty
            THEN /\ cliReport' = NoChangesReport
                 /\ pc' = "output"
                 /\ raised' = raised
            ELSE /\ pc' = "context"
                 /\ UNCHANGED <<raised, cliReport>>
    /\ UNCHANGED <<reportFile, detectedCount, cmd, opts, cprov, printed, exitCode, genResult, todo, results>>
    /\ CliFrame

\* reviewPR steps 2-3: gatherContext runs the text search once per changed
\* file that is not deleted
ReviewGatherContext(n) ==
    /\ cmd = "review" /\ pc = "context"
    /\ calls' = calls \o [i \in 1..n |-> "grep"]
    /\ pc' = "provider"
    /\ UNCHANGED <<reportFile, detectedCount, cmd, opts, cprov, raised, printed, exitCode, cliReport, genResult,
                   todo, results>>
    /\ CliFrame

\* reviewPR step 4: getProvider()
ReviewGetProvider ==
    /\ cmd = "review" /\ pc = "provider"
    /\ IF getProvider(env).ok
       THEN /\ cprov' = getProvider(env)
            /\ pc' = "llm"
            /\ raised' = raised
       ELSE /\ Throw(getProvider(env).error)
            /\ cprov' = cprov
    /\ UNCHANGED <<reportFile, detectedCount, cmd, opts, calls, printed, exitCode, cliReport, genResult, todo, results>>
    /\ CliFrame

\* reviewPR step 4: provider.reviewCode
ReviewCode(ok, rep) ==
    /\ cmd = "review" /\ pc = "llm"
    /\ IF Resolve(cprov.class, "reviewCode") = "own"
       THEN /\ calls' = Append(calls, "llm")
            /\ IF ok
               THEN /\ cliReport' = rep
                    /\ pc' = "output"
                    /\ raised' = raised
               ELSE /\ Throw("request failed")
                    /\ cliReport' = cliReport
       ELSE /\ Throw("must be implemented by subclass")
            /\ UNCHANGED <<calls, cliReport>>
    /\ UNCHANGED <<reportFile, detectedCount, cmd, opts, cprov, printed, exitCode, genResult, todo, results>>
    /\ CliFrame

\* runReview after reviewPR returned: print JSON, or write review-report.md and
\* print the summary; then exit 1 when the report counts a critical issue
ReviewOutput(writeOk) ==
    /\ cmd = "review" /\ pc = "output"
    /\ IF opts.json
       THEN /\ printed' = printed \cup {"report json"}
            /\ Exit(IF CountCriticals(cliReport) > 0 THEN 1 ELSE 0)
            /\ raised' = raised
            /\ UNCHANGED reportFile
       ELSE IF writeOk
            THEN /\ reportFile' = formatReviewMarkdown(cliReport)
                 /\ printed' = printed \cup {"summary"}
                 /\ Exit(IF CountCriticals(cliReport) > 0 THEN 1 ELSE 0)
                 /\ raised' = raised
            ELSE /\ Throw("write failed")
                 /\ UNCHANGED <<printed, exitCode, reportFile>>
    /\ UNCHANGED <<detectedCount, cmd, opts, cprov, calls, cliReport, genResult, todo, results>>
    /\ CliFrame

\* runReview().catch: console.error(message); process.exit(1)
ReviewCatch ==
    /\ cmd = "review" /\ pc = "caught"
    /\ printed' = printed \cup {"message"}
    /\ Exit(1)
    /\ UNCHANGED <<reportFile, detectedCount, cmd, opts, cprov, calls, raised, cliReport, genResult, todo, results>>
    /\ CliFrame

(* generate: runGenerate of src/index.js and generateTests *)

\* runGenerate: no target on the command line
GenNoTarget ==
    /\ cmd = "generate" /\ pc = "start"
    /\ opts.target = "none"
    /\ printed' = printed \cup {"usage"}
    /\ Exit(1)
    /\ UNCHANGED <<reportFile, detectedCount, cmd, opts, cprov, calls, raised, cliReport, genResult, todo, results>>
    /\ CliFrame

\* generateE2ETests step 1: crawlSite launches the browser and crawls
GenCrawl(ok) ==
    /\ cmd = "generate" /\ pc = "start"
    /\ opts.target = "url"
    /\ calls' = Append(calls, "browser")
    /\ IF ok THEN pc' = "gen_provider" /\ raised' = raised /\ todo' = 1
             ELSE Throw("crawl failed") /\ todo' = todo
    /\ UNCHANGED <<reportFile, detectedCount, cmd, opts, cprov, printed, exitCode, cliReport, genResult, results>>
    /\ CliFrame

\* generateUnitTests step 1: readSourceFiles; no source found is an error
GenReadSources(n) ==
    /\ cmd = "generate" /\ pc = "start"
    /\ opts.target \in {"file", "dir", "dir_empty", "missing"}
    /\ opts.target = "file" => n = 1
    /\ IF opts.target \in {"file", "dir"}
       THEN /\ todo' = n
            /\ pc' = "gen_provider"
            /\ raised' = raised
       ELSE /\ Throw("No source files found")
            /\ todo' = todo
    /\ UNCHANGED <<reportFile, detectedCount, cmd, opts, cprov, calls, printed, exitCode, cliReport, genResult, results>>
    /\ CliFrame

\* getProvider(), after the crawl (E2E) or for the next source (unit)
GenGetProvider ==
    /\ cmd = "generate" /\ pc = "gen_provider"
    /\ IF getProvider(env).ok
       THEN /\ cprov' = getProvider(env)
            /\ pc' = "gen_llm"
            /\ raised' = raised
       ELSE /\ Throw(getProvider(env).error)
            /\ cprov' = cprov
    /\ UNCHANGED <<reportFile, detectedCount, cmd, opts, calls, printed, exitCode, cliReport, genResult, todo, results>>
    /\ CliFrame

GenResultFor(o, n) ==
    [mode           |-> IF o.target = "url" THEN "e2e" ELSE "unit",
     testsGenerated |-> n,
     files          |-> n,
     outDir         |-> "./tests/generated"]

\* provider.generateTests(prompt), then parseGeneratedFiles, writing or
\* printing the files, the result and runGenerate's summary.  A provider
\* without the method makes the call a TypeError.
GenCallProvider(ok) ==
    /\ cmd = "generate" /\ pc = "gen_llm"
    /\ IF Resolve(cprov.class, "generateTests") = "own"
       THEN /\ calls' = Append(calls, "llm")
            /\ IF ~ok
               THEN /\ Throw("request failed")
                    /\ UNCHANGED <<todo, genResult, printed, exitCode>>
               ELSE IF todo > 1
                    THEN /\ todo' = todo - 1
                         /\ pc' = "gen_provider"
                         /\ UNCHANGED <<raised, genResult, printed, exitCode>>
                    ELSE /\ todo' = 0
                         /\ genResult' = GenResultFor(opts, Len(calls'))
                         /\ printed' = printed \cup {"summary"}
                         /\ Exit(0)
                         /\ raised' = raised
       ELSE /\ Throw("is not a function")
            /\ UNCHANGED <<calls, todo, genResult, printed, exitCode>>
    /\ UNCHANGED <<reportFile, detectedCount, cmd, opts, cprov, cliReport, results>>
    /\ CliFrame

\* runGenerate().catch: console.error(message); process.exit(1)
GenCatch ==
    /\ cmd = "generate" /\ pc = "caught"
    /\ printed' = printed \cup {"message"}
    /\ Exit(1)
    /\ UNCHANGED <<reportFile, detectedCount, cmd, opts, cprov, calls, raised, cliReport, genResult, todo, results>>
    /\ CliFrame

(* the visual-regression CLI *)

\* main, compare: compareDirectories, the report written; exit 1 when a file
\* failed.  Reading a PNG or writing the report may throw.
VisualCompare(ok, anyFailed) ==
    /\ cmd = "visual" /\ pc = "start"
    /\ opts.sub = "compare"
    /\ IF ok
       THEN /\ printed' = printed \cup {"report"}
            /\ Exit(IF anyFailed THEN 1 ELSE 0)
            /\ raised' = raised
       ELSE /\ Throw("compare failed")
            /\ UNCHANGED <<printed, exitCode>>
    /\ UNCHANGED <<reportFile, detectedCount, cmd, opts, cprov, calls, cliReport, genResult, todo, results>>
    /\ CliFrame

\* main, update-baseline: updateBaseline copies the files; a copy may throw
VisualUpdate(ok) ==
    /\ cmd = "visual" /\ pc = "start"
    /\ opts.sub = "update-baseline"
    /\ IF ok
       THEN /\ printed' = printed \cup {"summary"}
            /\ Exit(0)
            /\ raised' = raised
       ELSE /\ Throw("copy failed")
            /\ UNCHANGED <<printed, exitCode>>
    /\ UNCHANGED <<reportFile, detectedCount, cmd, opts, cprov, calls, cliReport, genResult, todo, results>>
    /\ CliFrame

\* main, any other command: the usage text
VisualHelp ==
    /\ cmd = "visual" /\ pc = "start"
    /\ opts.sub = "help"
    /\ printed' = printed \cup {"usage"}
    /\ Exit(0)
    /\ UNCHANGED <<reportFile, detectedCount, cmd, opts, cprov, calls, raised, cliReport, genResult, todo, results>>
    /\ CliFrame

\* main().catch(console.error): the error is printed and the process ends by
\* itself
VisualCatch ==
    /\ cmd = "visual" /\ pc = "caught"
    /\ printed' = printed \cup {"message", "stack"}
    /\ Exit(0)
    /\ UNCHANGED <<reportFile, detectedCount, cmd, opts, cprov, calls, raised, cliReport, genResult, todo, results>>
    /\ CliFrame

(* the benchmark runner *)

\* main: loadDataset reads the case files; it is outside the try block
BenchLoadDataset(ok, n) ==
    /\ cmd = "benchmark" /\ pc = "start"
    /\ IF ok THEN todo' = n /\ pc' = "bench_provider" /\ raised' = raised
             ELSE Throw("dataset unreadable") /\ todo' = todo
    /\ UNCHANGED <<reportFile, detectedCount, cmd, opts, cprov, calls, printed, exitCode, cliReport, genResult, results>>
    /\ CliFrame

\* main: getProvider(providerName); the function takes no parameter, so the
\* name is dropped.  An error is printed and the process exits 1 at once.
BenchGetProvider ==
    /\ cmd = "benchmark" /\ pc = "bench_provider"
    /\ IF getProvider(env).ok
       THEN /\ cprov' = getProvider(env)
            /\ pc' = "bench_case"
            /\ UNCHANGED <<raised, printed, exitCode>>
       ELSE /\ raised' = getProvider(env).error
            /\ printed' = printed \cup {"message"}
            /\ Exit(1)
            /\ cprov' = cprov
    /\ UNCHANGED <<reportFile, detectedCount, cmd, opts, calls, cliReport, genResult, todo, results>>
    /\ CliFrame

\* how a call of a provider's own reviewCode may end: with a report, or with
\* an error; the errors of the providers, of fetch and of the vendor SDKs
\* carry a message
ReviewOutcomes == {"returned", "raised"}

\* one case, with the error of a review leaving the loop instead of being
\* recorded
BenchCaseAbortsOnError(reviewOutcome, found) ==
    /\ cmd = "benchmark" /\ pc = "bench_case"
    /\ todo > 0
    /\ LET own   == Resolve(cprov.class, "reviewCode") = "own"
           threw == ~own \/ reviewOutcome # "returned"
           error == IF ~own THEN "must be implemented by subclass"
                    ELSE IF reviewOutcome = "raised" THEN "request failed"
                    ELSE ""
           name  == Len(results) + 1
       IN  /\ calls' = IF own THEN Append(calls, "llm") ELSE calls
           /\ IF error # ""
              THEN /\ Throw(error)
                   /\ UNCHANGED <<results, todo, detectedCount>>
              ELSE IF threw
              THEN /\ Throw("Cannot read properties of undefined")
                   /\ UNCHANGED <<results, todo, detectedCount>>
              ELSE /\ results' = Append(results,
                         [name |-> name, detected |-> found, falsePositives |-> 0,
                          error |-> ""])
                   /\ detectedCount' = detectedCount + (IF found THEN 1 ELSE 0)
                   /\ todo' = todo - 1
                   /\ UNCHANGED <<pc, raised>>
    /\ UNCHANGED <<reportFile, cmd, opts, cprov, printed, exitCode, cliReport, genResult>>
    /\ CliFrame

\* main: one case: provider.reviewCode inside try/catch with error =
\* err.message, then if (error) the error result, else the score and the line
\* that reads review.issues
BenchCase(reviewOutcome, found) ==
    /\ cmd = "benchmark" /\ pc = "bench_case"
    /\ todo > 0
    /\ LET own   == Resolve(cprov.class, "reviewCode") = "own"
           threw == ~own \/ reviewOutcome # "returned"
           error == IF ~own THEN "must be implemented by subclass"
                    ELSE IF reviewOutcome = "raised" THEN "request failed"
                    ELSE ""
           name  == Len(results) + 1
       IN  /\ calls' = IF own THEN Append(calls, "llm") ELSE calls
           /\ IF error # ""
              THEN /\ results' = Append(results,
                         [name |-> name, detected |-> FALSE, falsePositives |-> 0,
                          error |-> error])
                   /\ todo' = todo - 1
                   /\ UNCHANGED <<detectedCount, pc, raised>>
              ELSE IF threw
              THEN /\ Throw("Cannot read properties of undefined")
                   /\ UNCHANGED <<results, todo, detectedCount>>
              ELSE /\ results' = Append(results,
                         [name |-> name, detected |-> found, falsePositives |-> 0,
                          error |-> ""])
                   /\ detectedCount' = detectedCount + (IF found THEN 1 ELSE 0)
                   /\ todo' = todo - 1
                   /\ UNCHANGED <<pc, raised>>
    /\ UNCHANGED <<reportFile, cmd, opts, cprov, printed, exitCode, cliReport, genResult>>
    /\ CliFrame

\* main: the summary is printed and the report file written
BenchReport(writeOk) ==
    /\ cmd = "benchmark" /\ pc = "bench_case"
    /\ todo = 0
    /\ IF writeOk
       THEN /\ printed' = printed \cup {"summary"}
            /\ cliReport' = [kind |-> "benchmark", cases |-> results,
                             total |-> Len(results) + todo, detected |-> detectedCount]
            /\ Exit(0)
            /\ raised' = raised
       ELSE /\ Throw("write failed")
            /\ UNCHANGED <<printed, exitCode, cliReport>>
    /\ UNCHANGED <<reportFile, detectedCount, cmd, opts, cprov, calls, genResult, todo, results>>
    /\ CliFrame

\* main().catch: console.error('Benchmark failed:', err); process.exit(1)
BenchCatch ==
    /\ cmd = "benchmark" /\ pc = "caught"
    /\ printed' = printed \cup {"message", "stack"}
    /\ Exit(1)
    /\ UNCHANGED <<reportFile, detectedCount, cmd, opts, cprov, calls, raised, cliReport, genResult, todo, results>>
    /\ CliFrame

Next ==
    \/ ScanNoUrl
    \/ ScanGetProvider
    \/ \E ok \in BOOLEAN : ScanCapture(ok)
    \/ \E ok \in BOOLEAN : ScanAnalyze(ok)
    \/ \E ok \in BOOLEAN : ScanWrite(ok)
    \/ ScanCatch
    \/ \E ok \in BOOLEAN, empty \in BOOLEAN : ReviewGetDiff(ok, empty)
    \/ \E n \in 0..MaxChanged : ReviewGatherContext(n)
    \/ ReviewGetProvider
    \/ \E ok \in BOOLEAN, rep \in ReviewReports : ReviewCode(ok, rep)
    \/ \E ok \in BOOLEAN : ReviewOutput(ok)
    \/ ReviewCatch
    \/ GenNoTarget
    \/ \E ok \in BOOLEAN : GenCrawl(ok)
    \/ \E n \in 1..MaxItems : GenReadSources(n)
    \/ GenGetProvider
    \/ \E ok \in BOOLEAN : GenCallProvider(ok)
    \/ GenCatch
    \/ \E ok \in BOOLEAN, f \in BOOLEAN : VisualCompare(ok, f)
    \/ \E ok \in BOOLEAN : VisualUpdate(ok)
    \/ VisualHelp
    \/ VisualCatch
    \/ \E ok \in BOOLEAN, n \in 0..MaxItems : BenchLoadDataset(ok, n)
    \/ BenchGetProvider
    \/ \E o \in ReviewOutcomes, found \in BOOLEAN : BenchCase(o, found)
    \/ \E ok \in BOOLEAN : BenchReport(ok)
    \/ BenchCatch

-----------------------------------------------------------------------------
(* Page readiness: scripts/page-utils.js *)

IGNORED_DOMAINS ==
    {"doubleclick.net", "googlesyndication.com", "googleadservices.com",
     "google-analytics.com", "googletagmanager.com", "facebook.net",
     "facebook.com/tr", "hotjar.com", "intercom.io", "segment.io",
     "segment.com", "mixpanel.com", "amplitude.com", "sentry.io",
     "newrelic.com", "nr-data.net", "fullstory.com", "clarity.ms",
     "bing.com/bat", "ads.linkedin.com", "analytics.twitter.com",
     "px.ads.linkedin.com"}

NON_CRITICAL_TYPES == {"image", "font", "media", "stylesheet"}

\* request URLs as new URL() sees them: whether it parses, the protocol, the
\* hostname as its dot-separated pieces down to the registered domain, and
\* the length of the whole string
Urls ==
    {[href |-> "https://example.com/a", valid |-> TRUE, protocol |-> "https:",
      hostname |-> <<"example.com">>, length |-> 21],
     [href |-> "https://cdn.example.com/b", valid |-> TRUE, protocol |-> "https:",
      hostname |-> <<"cdn", "example.com">>, length |-> 25],
     [href |-> "data:image/png;base64,AAAA", valid |-> TRUE, protocol |-> "data:",
      hostname |-> <<>>, length |-> 26],
     [href |-> "https://example.com/p?long", valid |-> TRUE, protocol |-> "https:",
      hostname |-> <<"example.com">>, length |-> 2001],
     [href |-> "https://o1.ingest.sentry.io/e", valid |-> TRUE, protocol |-> "https:",
      hostname |-> <<"o1", "ingest", "sentry.io">>, length |-> 29],
     [href |-> "not a url", valid |-> FALSE, protocol |-> "",
      hostname |-> <<>>, length |-> 9]}

ResourceTypes == {"image", "stylesheet", "script"}

\* parsed.hostname.includes(domain)
HostnameIncludes(hostname, domain) ==
    \E i \in DOMAIN hostname : hostname[i] = domain

shouldIgnoreRequest(url) ==
    IF ~url.valid THEN TRUE
    ELSE IF url.protocol = "data:" THEN TRUE
    ELSE IF url.length > 2000 THEN TRUE
    ELSE \E domain \in IGNORED_DOMAINS : HostnameIncludes(url.hostname, domain)

\* const startTime = Date.now(): the clock starts with the call
startTime == 0

ReadyOptions ==
    [timeout : {MaxTimeout},
     networkIdleTime : 1 .. MaxIdleTime,
     nonCriticalTimeout : 2 .. MaxGrace]

\* the filter of the loop: the entries that still block readiness
CriticalPending ==
    {req \in pendingRequests :
        IF req.type \in NON_CRITICAL_TYPES
        THEN clock - req.startTime < readyOptions.nonCriticalTimeout
        ELSE TRUE}

\* the state at the first await: listeners registered, nothing tracked
InitReady ==
    /\ clock = startTime
    /\ readyOptions \in ReadyOptions
    /\ pendingRequests = {}
    /\ issued = 0
    /\ inflight = {}
    /\ listening = TRUE
    /\ wakeAt = 0
    /\ readyResult = None
    /\ readyError = ""
    /\ rpc = "loadstate"

\* time passes while the call awaits the load state or a timer
Tick ==
    /\ \/ rpc = "loadstate" /\ clock - startTime < readyOptions.timeout
       \/ rpc \in {"idle", "sleep"} /\ clock < wakeAt
    /\ clock' = clock + 1
    /\ UNCHANGED <<readyOptions, pendingRequests, issued, inflight, listening,
                   wakeAt, readyResult, readyError, rpc>>
    /\ ReadyFrame

\* the page starts a request; onRequest tracks it unless it is ignored
OnRequest(url, type) ==
    /\ rpc \in {"loadstate", "idle", "sleep"}
    /\ issued < MaxRequests
    /\ issued' = issued + 1
    /\ inflight' = inflight \cup {issued + 1}
    /\ pendingRequests' =
          IF listening /\ ~shouldIgnoreRequest(url)
          THEN pendingRequests \cup
                  {[request |-> issued + 1, url |-> url.href, type |-> type,
                    startTime |-> clock]}
          ELSE pendingRequests
    /\ UNCHANGED <<clock, readyOptions, listening, wakeAt, readyResult,
                   readyError, rpc>>
    /\ ReadyFrame

\* a response arrives; onResponse forgets its request
OnResponse(request) ==
    /\ rpc \in {"loadstate", "idle", "sleep"}
    /\ request \in inflight
    /\ inflight' = inflight \ {request}
    /\ pendingRequests' =
          IF listening
          THEN {req \in pendingRequests : req.request # request}
          ELSE pendingRequests
    /\ UNCHANGED <<clock, readyOptions, issued, listening, wakeAt, readyResult,
                   readyError, rpc>>
    /\ ReadyFrame

\* a request fails; onRequestFailed forgets it
OnRequestFailed(request) ==
    /\ rpc \in {"loadstate", "idle", "sleep"}
    /\ request \in inflight
    /\ inflight' = inflight \ {request}
    /\ pendingRequests' =
          IF listening
          THEN {req \in pendingRequests : req.request # request}
          ELSE pendingRequests
    /\ UNCHANGED <<clock, readyOptions, issued, listening, wakeAt, readyResult,
                   readyError, rpc>>
    /\ ReadyFrame

\* lines 134-146: the value returned, and the finally block
ReturnResult ==
    /\ readyResult' =
          [kind |-> "result",
           ready |-> Cardinality(pendingRequests) = 0,
           pendingRequests |-> {req.url : req \in pendingRequests},
           loadTime |-> clock - startTime]
    /\ listening' = FALSE
    /\ rpc' = "returned"
    /\ UNCHANGED <<clock, readyOptions, pendingRequests, issued, inflight,
                   wakeAt, readyError>>

\* await new Promise((r) => setTimeout(r, 100))
Sleep100 ==
    /\ rpc' = "sleep"
    /\ wakeAt' = clock + 1
    /\ UNCHANGED <<clock, readyOptions, pendingRequests, issued, inflight,
                   listening, readyResult, readyError>>

\* lines 100-131, from the loop test to the next await
LoopHead ==
    IF clock - startTime < readyOptions.timeout
    THEN IF Cardinality(CriticalPending) = 0
         THEN /\ rpc' = "idle"
              /\ wakeAt' = clock + readyOptions.networkIdleTime
              /\ UNCHANGED <<clock, readyOptions, pendingRequests, issued,
                             inflight, listening, readyResult, readyError>>
         ELSE Sleep100
    ELSE ReturnResult

\* page.waitForLoadState('domcontentloaded') resolves within the timeout
LoadStateResolves ==
    /\ rpc = "loadstate"
    /\ clock - startTime < readyOptions.timeout
    /\ LoopHead
    /\ ReadyFrame

\* page.waitForLoadState('domcontentloaded') rejects with a TimeoutError;
\* the try has a finally and no catch, so the error leaves the function
LoadStateTimesOut ==
    /\ rpc = "loadstate"
    /\ clock - startTime >= readyOptions.timeout
    /\ readyError' = "TimeoutError"
    /\ listening' = FALSE
    /\ rpc' = "raised"
    /\ UNCHANGED <<clock, readyOptions, pendingRequests, issued, inflight,
                   wakeAt, readyResult>>
    /\ ReadyFrame

\* the networkIdleTime timer fires: lines 117-131
IdleTimeOver ==
    /\ rpc = "idle"
    /\ clock >= wakeAt
    /\ IF Cardinality(CriticalPending) = 0
       THEN ReturnResult
       ELSE Sleep100
    /\ ReadyFrame

\* the 100 ms timer fires: back to the loop test
SleepOver ==
    /\ rpc = "sleep"
    /\ clock >= wakeAt
    /\ LoopHead
    /\ ReadyFrame

NextReady ==
    \/ Tick
    \/ \E url \in Urls, type \in ResourceTypes : OnRequest(url, type)
    \/ \E request \in 1 .. MaxRequests : OnResponse(request)
    \/ \E request \in 1 .. MaxRequests : OnRequestFailed(request)
    \/ LoadStateResolves
    \/ LoadStateTimesOut
    \/ IdleTimeOver
    \/ SleepOver

-----------------------------------------------------------------------------
(* Capture: capturePage (CLI) and capturePageData (library) *)

\* VIEWPORTS of the CLI capture
VIEWPORTS ==
    [desktop |-> [width |-> 1920, height |-> 1080],
     tablet  |-> [width |-> 768,  height |-> 1024],
     mobile  |-> [width |-> 375,  height |-> 667]]

\* VIEWPORT_CONFIGS of the library capture
VIEWPORT_CONFIGS ==
    [mobile  |-> [width |-> 375,  height |-> 667,  name |-> "mobile"],
     tablet  |-> [width |-> 768,  height |-> 1024, name |-> "tablet"],
     desktop |-> [width |-> 1920, height |-> 1080, name |-> "desktop"]]

\* names every object literal answers to through Object.prototype
ObjectPrototypeKeys == {"constructor", "toString"}

\* what such a name yields: a function, truthy, with no width or height
Inherited == [kind |-> "inherited"]

\* table[name] on an object literal: own entry, inherited member, or undefined
Lookup(table, name) ==
    IF name \in DOMAIN table THEN table[name]
    ELSE IF name \in ObjectPrototypeKeys THEN Inherited
    ELSE None

\* the viewport names callers hand in
ViewportNames == {"desktop", "mobile", "Desktop", "TABLET", "widescreen", "constructor"}

\* page.viewportSize() of the page handed to capturePageData: a size, or null
\* for a page of a context created without a fixed viewport
PageViewports == {None, [width |-> 1280, height |-> 720]}

\* page.setViewportSize checks its argument: width and height must be integers
ValidSize(v) == "width" \in DOMAIN v /\ "height" \in DOMAIN v

CaptureFunctions == {"capturePage", "capturePageData"}

InitCapture ==
    /\ capFn \in CaptureFunctions
    /\ capViewports \in SeqsUpTo(ViewportNames, MaxViewports)
    /\ capI = 1
    /\ capPc = IF capFn = "capturePage" THEN "mkdir" ELSE "attach"
    /\ browser = "none"
    /\ closes = 0
    /\ pageViewport \in (IF capFn = "capturePage" THEN {None} ELSE PageViewports)
    /\ entryViewport = pageViewport
    /\ originalViewport = None
    /\ screenshots = <<>>
    /\ warned = <<>>
    /\ capCall = 1
    /\ attached = {}
    /\ consoleErrors = [c \in 1 .. MaxCalls |-> 0]
    /\ returnedErrors = [c \in 1 .. MaxCalls |-> -1]
    /\ capStatus = [c \in 1 .. MaxCalls |-> IF c = 1 THEN "running" ELSE "none"]
    /\ capError = ""

\* the variables only capturePageData's listeners and calls touch
DataVars == <<capCall, attached, consoleErrors, returnedErrors, entryViewport,
              originalViewport>>

\* the variables of the viewport loop
LoopVars == <<capI, screenshots, warned, pageViewport>>

(* capturePage *)

\* an error inside the try block: control passes to the finally block
FailInTry(msg) ==
    /\ capError' = msg
    /\ capPc' = "finally"

\* fs.mkdir(screenshotDir): a failure leaves capturePage before any launch
CapturePageMkdir(ok) ==
    /\ capFn = "capturePage" /\ capPc = "mkdir"
    /\ IF ok
       THEN /\ capPc' = "launch"
            /\ UNCHANGED <<capError, capStatus>>
       ELSE /\ capError' = "mkdir failed"
            /\ capPc' = "ended"
            /\ capStatus' = [capStatus EXCEPT ![capCall] = "raised"]
    /\ UNCHANGED <<capFn, capViewports, browser, closes, LoopVars, DataVars>>
    /\ CapFrame

\* chromium.launch
CapturePageLaunch(ok) ==
    /\ capFn = "capturePage" /\ capPc = "launch"
    /\ IF ok
       THEN /\ browser' = "open"
            /\ capPc' = "context"
            /\ UNCHANGED <<capError, capStatus>>
       ELSE /\ capError' = "launch failed"
            /\ capPc' = "ended"
            /\ capStatus' = [capStatus EXCEPT ![capCall] = "raised"]
            /\ UNCHANGED browser
    /\ UNCHANGED <<capFn, capViewports, closes, LoopVars, DataVars>>
    /\ CapFrame

\* browser.newContext, context.newPage, and the three page.on calls
CapturePageOpen(ok) ==
    /\ capFn = "capturePage" /\ capPc = "context"
    /\ IF ok
       THEN capPc' = "goto" /\ UNCHANGED capError
       ELSE FailInTry("context or page failed")
    /\ UNCHANGED <<capFn, capViewports, browser, closes, capStatus, LoopVars, DataVars>>
    /\ CapFrame

\* page.goto(url, {waitUntil: 'networkidle', timeout})
CapturePageGoto(ok) ==
    /\ capFn = "capturePage" /\ capPc = "goto"
    /\ IF ok
       THEN capPc' = "title" /\ UNCHANGED capError
       ELSE FailInTry("navigation failed")
    /\ UNCHANGED <<capFn, capViewports, browser, closes, capStatus, LoopVars, DataVars>>
    /\ CapFrame

\* page.title() and the 1000 ms wait
CapturePageTitle(ok) ==
    /\ capFn = "capturePage" /\ capPc = "title"
    /\ IF ok
       THEN capPc' = "loop" /\ UNCHANGED capError
       ELSE FailInTry("title failed")
    /\ UNCHANGED <<capFn, capViewports, browser, closes, capStatus, LoopVars, DataVars>>
    /\ CapFrame

\* the head of the loop: VIEWPORTS[viewportName], unknown names are skipped
CapturePageNextViewport ==
    /\ capFn = "capturePage" /\ capPc = "loop"
    /\ IF capI > Len(capViewports)
       THEN /\ capPc' = "finally"
            /\ UNCHANGED <<capI, warned>>
       ELSE IF Lookup(VIEWPORTS, capViewports[capI]) = None
            THEN /\ warned' = Append(warned, capViewports[capI])
                 /\ capI' = capI + 1
                 /\ UNCHANGED capPc
            ELSE /\ capPc' = "resize"
                 /\ UNCHANGED <<capI, warned>>
    /\ UNCHANGED <<capFn, capViewports, browser, closes, capStatus, capError,
                   screenshots, pageViewport, DataVars>>
    /\ CapFrame

\* page.setViewportSize(viewport) and the 500 ms wait
CapturePageResize(ok) ==
    /\ capFn = "capturePage" /\ capPc = "resize"
    /\ LET viewport == Lookup(VIEWPORTS, capViewports[capI])
       IN  IF ~ValidSize(viewport)
           THEN /\ FailInTry("viewportSize: expected integer")
                /\ UNCHANGED pageViewport
           ELSE IF ok
                THEN /\ pageViewport' = viewport
                     /\ capPc' = "shot"
                     /\ UNCHANGED capError
                ELSE /\ FailInTry("resize failed")
                     /\ UNCHANGED pageViewport
    /\ UNCHANGED <<capFn, capViewports, browser, closes, capStatus, capI,
                   screenshots, warned, DataVars>>
    /\ CapFrame

\* page.screenshot({path, fullPage: false}) and the push
CapturePageScreenshot(ok) ==
    /\ capFn = "capturePage" /\ capPc = "shot"
    /\ IF ok
       THEN LET viewport == Lookup(VIEWPORTS, capViewports[capI])
            IN  /\ screenshots' = Append(screenshots,
                                     [viewport |-> capViewports[capI],
                                      width    |-> viewport.width,
                                      height   |-> viewport.height])
                /\ capI' = capI + 1
                /\ capPc' = "loop"
                /\ UNCHANGED capError
       ELSE /\ FailInTry("screenshot failed")
            /\ UNCHANGED <<capI, screenshots>>
    /\ UNCHANGED <<capFn, capViewports, browser, closes, capStatus, warned,
                   pageViewport, DataVars>>
    /\ CapFrame

\* the finally block closing the browser only when the try block ended well
CapturePageCloseOnSuccessOnly(ok) ==
    /\ capFn = "capturePage" /\ capPc = "finally"
    /\ IF capError = ""
       THEN /\ closes' = closes + 1
            /\ browser' = "closed"
       ELSE UNCHANGED <<closes, browser>>
    /\ capError' = IF ok \/ capError # "" THEN capError ELSE "close failed"
    /\ capStatus' = [capStatus EXCEPT
                        ![capCall] = IF capError' = "" THEN "returned" ELSE "raised"]
    /\ capPc' = "ended"
    /\ UNCHANGED <<capFn, capViewports, LoopVars, DataVars>>
    /\ CapFrame

\* finally { await browser.close() }, then return captureData or rethrow
CapturePageFinally(ok) ==
    /\ capFn = "capturePage" /\ capPc = "finally"
    /\ closes' = closes + 1
    /\ browser' = "closed"
    /\ capError' = IF ok THEN capError ELSE "close failed"
    /\ capStatus' = [capStatus EXCEPT
                        ![capCall] = IF capError' = "" THEN "returned" ELSE "raised"]
    /\ capPc' = "ended"
    /\ UNCHANGED <<capFn, capViewports, LoopVars, DataVars>>
    /\ CapFrame

(* capturePageData *)

\* an error leaves capturePageData at once: there is no try around the loop
DataRaises(msg) ==
    /\ capError' = msg
    /\ capPc' = "ended"
    /\ capStatus' = [capStatus EXCEPT ![capCall] = "raised"]

\* page.on('console' | 'requestfailed' | 'response', handler)
DataAttach ==
    /\ capFn = "capturePageData" /\ capPc = "attach"
    /\ attached' = attached \cup {capCall}
    /\ capPc' = "aria"
    /\ UNCHANGED <<capFn, capViewports, browser, closes, LoopVars, capCall,
                   consoleErrors, returnedErrors, entryViewport,
                   originalViewport, capStatus, capError>>
    /\ CapFrame

\* page.accessibility.snapshot() in its try/catch: a failure is swallowed
DataAriaSnapshot(ok) ==
    /\ capFn = "capturePageData" /\ capPc = "aria"
    /\ capPc' = "dom"
    /\ UNCHANGED <<capFn, capViewports, browser, closes, LoopVars, DataVars,
                   capStatus, capError>>
    /\ CapFrame

\* page.evaluate of the DOM summary in its try/catch, then
\* originalViewport = page.viewportSize()
DataDomSummary(ok) ==
    /\ capFn = "capturePageData" /\ capPc = "dom"
    /\ originalViewport' = pageViewport
    /\ capPc' = "loop"
    /\ UNCHANGED <<capFn, capViewports, browser, closes, LoopVars, capCall,
                   attached, consoleErrors, returnedErrors, entryViewport,
                   capStatus, capError>>
    /\ CapFrame

\* the head of the loop: VIEWPORT_CONFIGS[viewportName.toLowerCase()]
DataNextViewport ==
    /\ capFn = "capturePageData" /\ capPc = "loop"
    /\ IF capI > Len(capViewports)
       THEN /\ capPc' = "restore"
            /\ UNCHANGED <<capI, warned>>
       ELSE IF Lookup(VIEWPORT_CONFIGS, toLowerCase(capViewports[capI])) = None
            THEN /\ warned' = Append(warned, capViewports[capI])
                 /\ capI' = capI + 1
                 /\ UNCHANGED capPc
            ELSE /\ capPc' = "resize"
                 /\ UNCHANGED <<capI, warned>>
    /\ UNCHANGED <<capFn, capViewports, browser, closes, capStatus, capError,
                   screenshots, pageViewport, DataVars>>
    /\ CapFrame

\* page.setViewportSize({width: config.width, height: config.height}) and the
\* 500 ms wait
DataResize(ok) ==
    /\ capFn = "capturePageData" /\ capPc = "resize"
    /\ LET config == Lookup(VIEWPORT_CONFIGS, toLowerCase(capViewports[capI]))
       IN  IF ~ValidSize(config)
           THEN /\ DataRaises("viewportSize: expected integer")
                /\ UNCHANGED pageViewport
           ELSE IF ok
                THEN /\ pageViewport' = [width |-> config.width, height |-> config.height]
                     /\ capPc' = "shot"
                     /\ UNCHANGED <<capError, capStatus>>
                ELSE /\ DataRaises("resize failed")
                     /\ UNCHANGED pageViewport
    /\ UNCHANGED <<capFn, capViewports, browser, closes, capI, screenshots,
                   warned, DataVars>>
    /\ CapFrame

\* page.screenshot({fullPage: true}) and the push
DataScreenshot(ok) ==
    /\ capFn = "capturePageData" /\ capPc = "shot"
    /\ IF ok
       THEN LET config == Lookup(VIEWPORT_CONFIGS, toLowerCase(capViewports[capI]))
            IN  /\ screenshots' = Append(screenshots,
                                     [viewport |-> config.name,
                                      width    |-> config.width,
                                      height   |-> config.height])
                /\ capI' = capI + 1
                /\ capPc' = "loop"
                /\ UNCHANGED <<capError, capStatus>>
       ELSE /\ DataRaises("screenshot failed")
            /\ UNCHANGED <<capI, screenshots>>
    /\ UNCHANGED <<capFn, capViewports, browser, closes, warned, pageViewport,
                   DataVars>>
    /\ CapFrame

\* the loop's end without the restore: only the three page.off calls
DataRestoreSkipped(ok) ==
    /\ capFn = "capturePageData" /\ capPc = "restore"
    /\ attached' = attached \ {capCall}
    /\ capPc' = "title"
    /\ UNCHANGED <<capFn, capViewports, browser, closes, LoopVars, capCall,
                   consoleErrors, returnedErrors, entryViewport,
                   originalViewport, capStatus, capError>>
    /\ CapFrame

\* if (originalViewport) await page.setViewportSize(originalViewport); then
\* the three page.off calls
DataRestore(ok) ==
    /\ capFn = "capturePageData" /\ capPc = "restore"
    /\ IF originalViewport # None /\ ~ok
       THEN /\ DataRaises("restore failed")
            /\ UNCHANGED <<pageViewport, attached>>
       ELSE /\ pageViewport' = IF originalViewport # None
                                THEN originalViewport ELSE pageViewport
            /\ attached' = attached \ {capCall}
            /\ capPc' = "title"
            /\ UNCHANGED <<capError, capStatus>>
    /\ UNCHANGED <<capFn, capViewports, browser, closes, capI, screenshots,
                   warned, capCall, consoleErrors, returnedErrors,
                   entryViewport, originalViewport>>
    /\ CapFrame

\* page.title() and the return of the capture data
DataReturn(ok) ==
    /\ capFn = "capturePageData" /\ capPc = "title"
    /\ IF ok
       THEN /\ capStatus' = [capStatus EXCEPT ![capCall] = "returned"]
            /\ returnedErrors' = [returnedErrors EXCEPT ![capCall] = consoleErrors[capCall]]
            /\ capPc' = "ended"
            /\ UNCHANGED capError
       ELSE /\ DataRaises("title failed")
            /\ UNCHANGED returnedErrors
    /\ UNCHANGED <<capFn, capViewports, browser, closes, LoopVars, capCall,
                   attached, consoleErrors, entryViewport, originalViewport>>
    /\ CapFrame

\* the caller calls capturePageData again on the same page
DataCallAgain(viewports) ==
    /\ capFn = "capturePageData" /\ capPc = "ended"
    /\ capCall < MaxCalls
    /\ capCall' = capCall + 1
    /\ capViewports' = viewports
    /\ capI' = 1
    /\ screenshots' = <<>>
    /\ warned' = <<>>
    /\ capError' = ""
    /\ entryViewport' = pageViewport
    /\ originalViewport' = None
    /\ capStatus' = [capStatus EXCEPT ![capCall + 1] = "running"]
    /\ capPc' = "attach"
    /\ UNCHANGED <<capFn, browser, closes, pageViewport, attached,
                   consoleErrors, returnedErrors>>
    /\ CapFrame

\* the page emits a console error: every consoleHandler still on the page
\* pushes it to its call's list
ConsoleEvent ==
    /\ capFn = "capturePageData"
    /\ attached # {}
    /\ \A c \in attached : consoleErrors[c] < MaxEvents
    /\ consoleErrors' = [c \in 1 .. MaxCalls |->
                            IF c \in attached THEN consoleErrors[c] + 1
                            ELSE consoleErrors[c]]
    /\ UNCHANGED <<capFn, capViewports, capPc, browser, closes, LoopVars,
                   capCall, attached, returnedErrors, entryViewport,
                   originalViewport, capStatus, capError>>
    /\ CapFrame

NextCapture ==
    \/ \E ok \in BOOLEAN : CapturePageMkdir(ok)
    \/ \E ok \in BOOLEAN : CapturePageLaunch(ok)
    \/ \E ok \in BOOLEAN : CapturePageOpen(ok)
    \/ \E ok \in BOOLEAN : CapturePageGoto(ok)
    \/ \E ok \in BOOLEAN : CapturePageTitle(ok)
    \/ CapturePageNextViewport
    \/ \E ok \in BOOLEAN : CapturePageResize(ok)
    \/ \E ok \in BOOLEAN : CapturePageScreenshot(ok)
    \/ \E ok \in BOOLEAN : CapturePageFinally(ok)
    \/ DataAttach
    \/ \E ok \in BOOLEAN : DataAriaSnapshot(ok)
    \/ \E ok \in BOOLEAN : DataDomSummary(ok)
    \/ DataNextViewport
    \/ \E ok \in BOOLEAN : DataResize(ok)
    \/ \E ok \in BOOLEAN : DataScreenshot(ok)
    \/ \E ok \in BOOLEAN : DataRestore(ok)
    \/ \E ok \in BOOLEAN : DataReturn(ok)
    \/ \E viewports \in SeqsUpTo(ViewportNames, MaxViewports) : DataCallAgain(viewports)
    \/ ConsoleEvent

-----------------------------------------------------------------------------
(* Element references: scripts/aria-snapshot.js *)

\* an object with no entries: {} and, for lookups, an undefined table
EmptyTable == [t \in {} |-> 0]

\* the entry of the table that holds el, walking Object.entries in order;
\* 0 when there is none
RefOf(table, el) ==
    IF \E t \in DOMAIN table : table[t] = el
    THEN CHOOSE t \in DOMAIN table :
            /\ table[t] = el
            /\ \A u \in DOMAIN table : table[u] = el => t <= u
    ELSE 0

\* getRef(el), on the state of one run of the snapshot script: the table, the
\* script's refCounter and the references written into the snapshot so far
getRef(st, el) ==
    LET found == RefOf(st.table, el)
    IN  IF found # 0
        THEN [st EXCEPT !.labels = (el :> found) @@ st.labels]
        ELSE [table      |-> ((st.refCounter + 1) :> el) @@ st.table,
              refCounter |-> st.refCounter + 1,
              labels     |-> (el :> (st.refCounter + 1)) @@ st.labels]

\* buildSnapshot over the elements in document order
RECURSIVE buildSnapshot(_, _)
buildSnapshot(st, els) ==
    IF els = <<>> THEN st
    ELSE buildSnapshot(getRef(st, Head(els)), Tail(els))

\* one run of SNAPSHOT_SCRIPT: refCounter starts at 0, the table is the
\* page's, or a new one
RunSnapshotScript(table, els) ==
    buildSnapshot([table |-> table, refCounter |-> 0, labels |-> EmptyTable], els)

\* window.__qaRefs?.[ref] || null, wrapped by page.evaluateHandle: always a
\* handle object, an ElementHandle only when the value is an element
selectByRef(table, ref) ==
    IF ref \in DOMAIN table
    THEN [handle |-> "ElementHandle", element |-> table[ref]]
    ELSE [handle |-> "JSHandle", element |-> 0]

\* if (element): a handle is an object, and objects are truthy
Truthy(handle) == handle.handle \in {"ElementHandle", "JSHandle"}

\* the methods a handle has
HandleMethods(handle) ==
    IF handle.handle = "ElementHandle" THEN {"click", "fill"} ELSE {}

NoRefCall ==
    [op |-> "none", ref |-> 0, entry |-> FALSE, outcome |-> "none", error |-> "",
     element |-> 0]

InitAria ==
    /\ dom = <<>>
    /\ nextEl = 1
    /\ qaRefs = EmptyTable
    /\ snapCount = 0
    /\ prevLabels = EmptyTable
    /\ lastLabels = EmptyTable
    /\ lastRefCount = 0
    /\ quiet = FALSE
    /\ quietPair = FALSE
    /\ handedOut = {}
    /\ refCall = NoRefCall

\* the page adds an element at position pos of the document
AddElement(pos) ==
    /\ nextEl <= MaxElements
    /\ pos \in 1 .. Len(dom) + 1
    /\ dom' = SubSeq(dom, 1, pos - 1) \o <<nextEl>> \o SubSeq(dom, pos, Len(dom))
    /\ nextEl' = nextEl + 1
    /\ quiet' = FALSE
    /\ UNCHANGED <<qaRefs, snapCount, prevLabels, lastLabels, lastRefCount,
                   quietPair, handedOut, refCall>>
    /\ AriaFrame

\* the page navigates: a new window and a new document
Navigate ==
    /\ snapCount >= 1
    /\ nextEl <= MaxElements
    /\ dom' = <<>>
    /\ qaRefs' = EmptyTable
    /\ prevLabels' = EmptyTable
    /\ lastLabels' = EmptyTable
    /\ quiet' = FALSE
    /\ quietPair' = FALSE
    /\ handedOut' = {}
    /\ UNCHANGED <<nextEl, snapCount, lastRefCount, refCall>>
    /\ AriaFrame

\* getAriaSnapshot(page)
GetAriaSnapshot ==
    /\ snapCount < MaxSnapshots
    /\ LET run == RunSnapshotScript(qaRefs, dom)
       IN  /\ qaRefs' = run.table
           /\ lastRefCount' = run.refCounter
           /\ prevLabels' = lastLabels
           /\ lastLabels' = run.labels
           /\ handedOut' = handedOut \cup
                              {<<run.labels[el], el>> : el \in DOMAIN run.labels}
    /\ snapCount' = snapCount + 1
    /\ quietPair' = quiet
    /\ quiet' = TRUE
    /\ UNCHANGED <<dom, nextEl, refCall>>
    /\ AriaFrame

\* clickByRef(page, ref) and typeByRef(page, ref, text); entry records whether
\* the table had an entry for ref when the call was made
ByRef(op, ref) ==
    /\ LET element == selectByRef(qaRefs, ref)
           call    == [op |-> op, ref |-> ref, entry |-> ref \in DOMAIN qaRefs,
                       outcome |-> "raised", error |-> "", element |-> 0]
       IN  refCall' =
              IF Truthy(element)
              THEN IF op \in HandleMethods(element)
                   THEN [call EXCEPT !.outcome = "done", !.element = element.element]
                   ELSE [call EXCEPT !.error = "element." \o op \o " is not a function"]
              ELSE [call EXCEPT !.error = "Element with ref not found"]
    /\ UNCHANGED <<dom, nextEl, qaRefs, snapCount, prevLabels, lastLabels,
                   lastRefCount, quiet, quietPair, handedOut>>
    /\ AriaFrame

NextAria ==
    \/ \E pos \in 1 .. MaxElements : AddElement(pos)
    \/ Navigate
    \/ GetAriaSnapshot
    \/ \E op \in {"click", "fill"}, ref \in 1 .. MaxElements : ByRef(op, ref)

-----------------------------------------------------------------------------
(* The site crawler: crawlSite of src/generate.js *)

\* visited.size < 10
PageLimit == 10

\* a URL, by its origin and the number of its page; an href that new URL()
\* cannot parse has the origin "invalid"
Url(origin, path) == [origin |-> origin, path |-> path]

StartUrl == Url("https://a.test", 0)
Own(n) == Url("https://a.test", n)
Cross == Url("https://b.test", 0)
Script == Url("null", 0)
Unparsable == Url("invalid", 0)

Sites == {"chain", "fanout", "cycle"}

\* the hrefs of the anchors on the page that a URL serves, in document order
LinksOf(s, u) ==
    LET n == u.path
        next1 == IF n + 1 <= MaxPath THEN <<Own(n + 1)>> ELSE <<>>
        next2 == IF n + 2 <= MaxPath THEN <<Own(n + 2)>> ELSE <<>>
    IN  CASE s = "chain"  -> next1 \o next1
          [] s = "fanout" -> <<Cross>> \o next1 \o <<Script>> \o next2
          [] OTHER        -> <<StartUrl, Unparsable, Own((n + 1) % 3), Cross>>

\* page.url() after page.goto(u): page 2 of the site "cycle" redirects to
\* another origin
PageUrl(s, u) == IF s = "cycle" /\ u.path = 2 THEN Cross ELSE u

\* new URL(e.href).origin === baseUrl.origin, false when new URL throws
SameOrigin(href, baseUrl) ==
    href.origin # "invalid" /\ href.origin = baseUrl.origin

Range(s) == {s[i] : i \in DOMAIN s}

RECURSIVE Filter(_, _)
Filter(s, keep) ==
    IF s = <<>> THEN <<>>
    ELSE (IF Head(s) \in keep THEN <<Head(s)>> ELSE <<>>) \o Filter(Tail(s), keep)

\* what a failing step of the loop body leaves undone
LoadSteps == {"goto", "waitForTimeout", "title", "evaluate", "ok"}

InitCrawl ==
    /\ site \in Sites
    /\ crawlPc = "launch"
    /\ toVisit = <<StartUrl>>
    /\ visited = {}
    /\ navigated = <<>>
    /\ failedLoads = 0
    /\ pages = <<>>
    /\ interactions = <<>>
    /\ crawlStatus = "running"
    /\ crawlError = ""
    /\ crawlBrowser = "none"
    /\ startValid \in BOOLEAN

CrawlRaises(msg) ==
    /\ crawlPc' = "done"
    /\ crawlStatus' = "raised"
    /\ crawlError' = msg

\* how the lines before the loop can end
LaunchOutcomes == {"ok", "no playwright", "launch failed", "context failed",
                   "page failed"}

\* require('playwright'), chromium.launch, newContext, newPage and
\* new URL(url), in the order of the code; none of them is inside a try
\* whose handler or finally closes the browser
CrawlLaunch(launched) ==
    /\ crawlPc = "launch"
    /\ crawlBrowser' = IF launched \in {"no playwright", "launch failed"}
                       THEN "none" ELSE "open"
    /\ IF launched # "ok"
       THEN CrawlRaises(launched)
       ELSE IF ~startValid
       THEN CrawlRaises("Invalid URL")
       ELSE /\ crawlPc' = "loop"
            /\ UNCHANGED <<crawlStatus, crawlError>>
    /\ UNCHANGED <<startValid, site, toVisit, visited, navigated, failedLoads, pages,
                   interactions>>
    /\ CrawlFrame

\* the skip of a visited URL that leaves it at the head of the queue
CrawlSkipKeepsHead ==
    /\ crawlPc = "loop"
    /\ toVisit # <<>>
    /\ Cardinality(visited) < PageLimit
    /\ Head(toVisit) \in visited
    /\ toVisit' = toVisit
    /\ UNCHANGED <<startValid, crawlBrowser, site, crawlPc, visited, navigated,
                   failedLoads, pages, interactions, crawlStatus, crawlError>>
    /\ CrawlFrame

\* if (visited.has(currentUrl)) continue
CrawlSkip ==
    /\ crawlPc = "loop"
    /\ toVisit # <<>>
    /\ Cardinality(visited) < PageLimit
    /\ Head(toVisit) \in visited
    /\ toVisit' = Tail(toVisit)
    /\ UNCHANGED <<startValid, crawlBrowser, site, crawlPc, visited, navigated,
                   failedLoads, pages, interactions, crawlStatus, crawlError>>
    /\ CrawlFrame

\* one pass of the loop that enqueues every link, whatever its origin
CrawlVisitAnyOrigin(failing) ==
    /\ crawlPc = "loop"
    /\ toVisit # <<>>
    /\ Cardinality(visited) < PageLimit
    /\ Head(toVisit) \notin visited
    /\ LET currentUrl == Head(toVisit)
           pageUrl    == PageUrl(site, currentUrl)
           elements   == LinksOf(site, currentUrl)
           links      == Filter(elements, {e \in Range(elements) : e.origin # "invalid"})
       IN  /\ visited' = visited \cup {currentUrl}
           /\ navigated' = Append(navigated, currentUrl)
           /\ IF failing = "ok"
              THEN /\ pages' = Append(pages, [url |-> pageUrl,
                                              elementCount |-> Len(elements)])
                   /\ interactions' = interactions \o
                         [i \in 1 .. Len(elements) |->
                             [type |-> "link", href |-> elements[i], page |-> pageUrl]]
                   /\ toVisit' = Tail(toVisit) \o
                         Filter(links, Range(links) \ visited')
                   /\ UNCHANGED failedLoads
              ELSE /\ toVisit' = Tail(toVisit)
                   /\ failedLoads' = failedLoads + 1
                   /\ UNCHANGED <<pages, interactions>>
    /\ UNCHANGED <<startValid, crawlBrowser, site, crawlPc, crawlStatus, crawlError>>
    /\ CrawlFrame

\* one pass of the loop for a URL not yet visited: the try block, which
\* either runs to its end or fails at one of its awaits and is caught
CrawlVisit(failing) ==
    /\ crawlPc = "loop"
    /\ toVisit # <<>>
    /\ Cardinality(visited) < PageLimit
    /\ Head(toVisit) \notin visited
    /\ LET currentUrl == Head(toVisit)
           pageUrl    == PageUrl(site, currentUrl)
           elements   == LinksOf(site, currentUrl)
           links      == Filter(elements,
                                {e \in Range(elements) : SameOrigin(e, StartUrl)})
       IN  /\ visited' = visited \cup {currentUrl}
           /\ navigated' = Append(navigated, currentUrl)
           /\ IF failing = "ok"
              THEN /\ pages' = Append(pages, [url |-> pageUrl,
                                              elementCount |-> Len(elements)])
                   /\ interactions' = interactions \o
                         [i \in 1 .. Len(elements) |->
                             [type |-> "link", href |-> elements[i], page |-> pageUrl]]
                   /\ toVisit' = Tail(toVisit) \o
                         Filter(links, Range(links) \ visited')
                   /\ UNCHANGED failedLoads
              ELSE /\ toVisit' = Tail(toVisit)
                   /\ failedLoads' = failedLoads + 1
                   /\ UNCHANGED <<pages, interactions>>
    /\ UNCHANGED <<startValid, crawlBrowser, site, crawlPc, crawlStatus, crawlError>>
    /\ CrawlFrame

\* the loop is over: browser.close() and the return
CrawlClose(ok) ==
    /\ crawlPc = "loop"
    /\ ~(toVisit # <<>> /\ Cardinality(visited) < PageLimit)
    /\ IF ok
       THEN /\ crawlPc' = "done"
            /\ crawlStatus' = "returned"
            /\ crawlBrowser' = "closed"
            /\ UNCHANGED crawlError
       ELSE /\ CrawlRaises("close failed")
            /\ crawlBrowser' = "closing"
    /\ UNCHANGED <<startValid, site, toVisit, visited, navigated, failedLoads, pages,
                   interactions>>
    /\ CrawlFrame

NextCrawl ==
    \/ \E launched \in LaunchOutcomes : CrawlLaunch(launched)
    \/ CrawlSkip
    \/ \E failing \in LoadSteps : CrawlVisit(failing)
    \/ \E ok \in BOOLEAN : CrawlClose(ok)

-----------------------------------------------------------------------------
(* Visual regression: compareImages and compareDirectories *)

\* failThreshold = 0.5, in hundredths of a percent
DefaultFailThreshold == 50

\* the other threshold tried: 50 percent
HalfFailThreshold == 5000

\* directory entries, in the order readdirSync lists them
FileOrder == <<"home.png", "login.png", "notes.txt">>
FileNames == Range(FileOrder)

\* f.endsWith('.png')
EndsWithPng(f) == f \in {"home.png", "login.png"}

\* images: their size and their pixels, row by row; Corrupt is a file that
\* PNG.sync.read rejects
Image(w, h, data) == [width |-> w, height |-> h, data |-> data]
Corrupt == [width |-> 0, height |-> 0, data |-> <<>>]
Images == {Image(2, 1, <<0, 0>>), Image(2, 1, <<0, 1>>), Image(1, 1, <<0>>), Corrupt}

Absent == [kind |-> "absent"]
NoDir == [kind |-> "no directory"]

Directories ==
    {d \in [FileNames -> Images \cup {Absent}] :
        d["notes.txt"] \in {Absent, Image(1, 1, <<0>>)}} \cup {NoDir}

\* fs.existsSync(dir) ? fs.readdirSync(dir).filter(endsWith('.png')) : []
PngFiles(dir) ==
    IF dir = NoDir THEN <<>>
    ELSE Filter(FileOrder, {f \in FileNames : dir[f] # Absent /\ EndsWithPng(f)})

\* fs.existsSync(path.join(dir, f))
ExistsIn(dir, f) == dir # NoDir /\ dir[f] # Absent

\* new Set([...baselineFiles, ...currentFiles]), in insertion order
UnionInOrder(a, b) == a \o Filter(b, Range(b) \ Range(a))

\* pixelmatch: the number of pixels that differ
Pixelmatch(a, b) == Cardinality({i \in DOMAIN a : a[i] # b[i]})

\* parseFloat(x.toFixed(d)) of a quotient, as a whole number of 10^-d units
RoundedQuotient(num, den) == (2 * num + den) \div (2 * den)

\* compareImages(baselinePath, currentPath, diffPath, options), for two files
\* that PNG.sync.read accepts; diffPercent in hundredths of a percent
compareImages(baseline, current) ==
    IF baseline.width # current.width \/ baseline.height # current.height
    THEN [match |-> FALSE, error |-> "dimension_mismatch", diffPixels |-> -1,
          diffPercent |-> 10000]
    ELSE LET diffPixels  == Pixelmatch(baseline.data, current.data)
             totalPixels == baseline.width * baseline.height
         IN  [match |-> diffPixels = 0, error |-> "", diffPixels |-> diffPixels,
              diffPercent |-> RoundedQuotient(diffPixels * 10000, totalPixels)]

InitCompare ==
    /\ baselineDir \in Directories
    /\ currentDir \in Directories
    /\ failThreshold \in {DefaultFailThreshold, HalfFailThreshold}
    /\ cmpPc = "loop"
    /\ allFiles = UnionInOrder(PngFiles(baselineDir), PngFiles(currentDir))
    /\ cmpResults = <<>>
    /\ passed = 0
    /\ failed = 0
    /\ missing = 0
    /\ newImages = 0
    /\ summary = None
    /\ cmpStatus = "running"

\* one pass of the loop that keeps warnings out of the passed counter
CompareFileWarningUncounted ==
    /\ cmpPc = "loop"
    /\ allFiles # <<>>
    /\ LET f == Head(allFiles)
           readable == baselineDir[f] # Corrupt /\ currentDir[f] # Corrupt
           comparison == compareImages(baselineDir[f], currentDir[f])
           status ==
              IF ~ExistsIn(baselineDir, f) THEN "new"
              ELSE IF ~ExistsIn(currentDir, f) THEN "missing"
              ELSE IF comparison.error = "dimension_mismatch" THEN "failed"
              ELSE IF comparison.diffPercent > failThreshold THEN "failed"
              ELSE IF comparison.diffPixels > 0 THEN "warning"
              ELSE "passed"
       IN  IF ExistsIn(baselineDir, f) /\ ExistsIn(currentDir, f) /\ ~readable
           THEN /\ cmpPc' = "done"
                /\ cmpStatus' = "raised"
                /\ UNCHANGED <<allFiles, cmpResults, passed, failed, missing, newImages>>
           ELSE /\ allFiles' = Tail(allFiles)
                /\ cmpResults' = Append(cmpResults, [file |-> f, status |-> status])
                /\ newImages' = newImages + (IF status = "new" THEN 1 ELSE 0)
                /\ missing' = missing + (IF status = "missing" THEN 1 ELSE 0)
                /\ failed' = failed + (IF status = "failed" THEN 1 ELSE 0)
                /\ passed' = passed + (IF status = "passed" THEN 1 ELSE 0)
                /\ UNCHANGED <<cmpPc, cmpStatus>>
    /\ UNCHANGED <<baselineDir, currentDir, failThreshold, summary>>
    /\ CompareFrame

\* one pass of the loop over allFiles
CompareFile ==
    /\ cmpPc = "loop"
    /\ allFiles # <<>>
    /\ LET f == Head(allFiles)
           readable == baselineDir[f] # Corrupt /\ currentDir[f] # Corrupt
           comparison == compareImages(baselineDir[f], currentDir[f])
           status ==
              IF ~ExistsIn(baselineDir, f) THEN "new"
              ELSE IF ~ExistsIn(currentDir, f) THEN "missing"
              ELSE IF comparison.error = "dimension_mismatch" THEN "failed"
              ELSE IF comparison.diffPercent > failThreshold THEN "failed"
              ELSE IF comparison.diffPixels > 0 THEN "warning"
              ELSE "passed"
       IN  IF ExistsIn(baselineDir, f) /\ ExistsIn(currentDir, f) /\ ~readable
           THEN /\ cmpPc' = "done"
                /\ cmpStatus' = "raised"
                /\ UNCHANGED <<allFiles, cmpResults, passed, failed, missing, newImages>>
           ELSE /\ allFiles' = Tail(allFiles)
                /\ cmpResults' = Append(cmpResults, [file |-> f, status |-> status])
                /\ newImages' = newImages + (IF status = "new" THEN 1 ELSE 0)
                /\ missing' = missing + (IF status = "missing" THEN 1 ELSE 0)
                /\ failed' = failed + (IF status = "failed" THEN 1 ELSE 0)
                /\ passed' = passed + (IF status \in {"warning", "passed"} THEN 1 ELSE 0)
                /\ UNCHANGED <<cmpPc, cmpStatus>>
    /\ UNCHANGED <<baselineDir, currentDir, failThreshold, summary>>
    /\ CompareFrame

\* the return: allFiles.size is the number of results; passRate in tenths of
\* a percent
CompareReturn ==
    /\ cmpPc = "loop"
    /\ allFiles = <<>>
    /\ LET size == Len(cmpResults)
       IN  summary' = [total |-> size, passed |-> passed, failed |-> failed,
                       missing |-> missing, new |-> newImages,
                       passRate |-> IF size > 0
                                    THEN RoundedQuotient(passed * 1000, size)
                                    ELSE 1000]
    /\ cmpPc' = "done"
    /\ cmpStatus' = "returned"
    /\ UNCHANGED <<baselineDir, currentDir, failThreshold, allFiles, cmpResults,
                   passed, failed, missing, newImages>>
    /\ CompareFrame

NextCompare ==
    \/ CompareFile
    \/ CompareReturn

-----------------------------------------------------------------------------
(* Benchmark scoring: matchDescription of benchmarks/run.js *)

\* String.prototype.toLowerCase, on the letters the descriptions use
LowerChar(c) ==
    CASE c = "S" -> "s" [] c = "Q" -> "q" [] c = "L" -> "l" [] OTHER -> c

LowerText(t) == [i \in DOMAIN t |-> LowerChar(t[i])]

\* the characters of the class [\s,/]
Separators == {" ", ",", "/"}

\* split(/[\s,/]+/): the pieces between runs of separators, with an empty piece
\* where the text starts or ends with a separator
RECURSIVE SplitFrom(_, _, _)
SplitFrom(t, word, inRun) ==
    IF t = <<>> THEN <<word>>
    ELSE IF Head(t) \in Separators
         THEN IF inRun THEN SplitFrom(Tail(t), word, TRUE)
              ELSE <<word>> \o SplitFrom(Tail(t), <<>>, TRUE)
         ELSE SplitFrom(Tail(t), Append(word, Head(t)), FALSE)

Split(t) == SplitFrom(t, <<>>, FALSE)

\* String.prototype.includes
Includes(t, kw) ==
    \E i \in 0 .. Len(t) - Len(kw) : SubSeq(t, i + 1, i + Len(kw)) = kw

\* Math.ceil(n * 0.4); below 15 keywords the floating point product has the
\* ceiling of the exact one
CeilFortyPercent(n) == (2 * n + 4) \div 5

RECURSIVE SelectWords(_, _)
SelectWords(ws, minLen) ==
    IF ws = <<>> THEN <<>>
    ELSE (IF Len(Head(ws)) >= minLen THEN <<Head(ws)>> ELSE <<>>)
            \o SelectWords(Tail(ws), minLen)

\* the keywords of an expected description: its lowercase words longer than
\* 3 characters
Keywords(expected) == SelectWords(Split(LowerText(expected)), 4)

\* the keywords when words of 3 characters are kept as well
KeywordsFromThreeLetters(expected) == SelectWords(Split(LowerText(expected)), 3)

Hits(actual, kws) == {i \in DOMAIN kws : Includes(LowerText(actual), kws[i])}

\* matchDescription that keeps the words of 3 characters
matchDescriptionThreeLetters(actual, expected) ==
    LET kws == KeywordsFromThreeLetters(expected)
    IN  [keywords |-> kws,
         match |-> Cardinality(Hits(actual, kws)) >= CeilFortyPercent(Len(kws))]

\* matchDescription(actual, expected), with the keywords it worked on
matchDescription(actual, expected) ==
    LET kws == Keywords(expected)
    IN  [keywords |-> kws,
         match |-> Cardinality(Hits(actual, kws)) >= CeilFortyPercent(Len(kws))]

SqlDescription ==
    <<"S", "Q", "L", " ", "i", "n", "j", "e", "c", "t", "i", "o", "n", " ", "v", "i", "a", " ",
      "u", "n", "s", "a", "n", "i", "t", "i", "z", "e", "d", " ", "q", "u", "e", "r", "y", " ", "p", "a", "r", "a", "m", "e", "t", "e", "r">>

\* the words reported descriptions are made of
Vocabulary ==
    {<<"S", "Q", "L">>,
     <<"s", "q", "l">>,
     <<"q", "u", "e", "r", "y">>,
     <<"Q", "u", "e", "r", "y">>,
     <<"i", "n", "j", "e", "c", "t", "i", "o", "n">>,
     <<"u", "n", "s", "a", "n", "i", "t", "i", "z", "e", "d">>,
     <<"p", "a", "r", "a", "m", "e", "t", "e", "r">>,
     <<"v", "i", "a">>,
     <<"s", "u", "b", "q", "u", "e", "r", "y">>,
     <<"x", "s", "s">>}

RECURSIVE Join(_)
Join(ws) ==
    IF ws = <<>> THEN <<>>
    ELSE IF Len(ws) = 1 THEN Head(ws)
    ELSE Head(ws) \o <<" ">> \o Join(Tail(ws))

ActualDescriptions ==
    {Join(ws) : ws \in UNION {[1 .. n -> Vocabulary] : n \in 0 .. MaxWords}}

InitMatch ==
    /\ expectedDescription = SqlDescription
    /\ actualDescription \in ActualDescriptions
    /\ matchPc = "call"
    /\ keywords = <<>>
    /\ descMatch = FALSE

\* scoreResult calls matchDescription(issue.description, exp.description)
MatchDescriptionCall ==
    /\ matchPc = "call"
    /\ LET r == matchDescription(actualDescription, expectedDescription)
       IN  /\ keywords' = r.keywords
           /\ descMatch' = r.match
    /\ matchPc' = "done"
    /\ UNCHANGED <<expectedDescription, actualDescription>>
    /\ MatchFrame

NextMatch == MatchDescriptionCall

-----------------------------------------------------------------------------
(* The demo fixture page: docs/app.js *)

\* setTimeout(..., 5000), in seconds
TimerDelay == 5

\* the identifiers the page defines
DefinedGlobals == {"console", "document", "window", "alert", "setTimeout"}

\* the statements of the DOMContentLoaded handler, in order: the identifiers
\* a statement reads when it runs, and what it sets up
HandlerStatements ==
    <<[reads |-> {"console"},             listens |-> {},             timer |-> FALSE],
      [reads |-> {"console", "siteConfig"}, listens |-> {},           timer |-> FALSE],
      [reads |-> {"document"},            listens |-> {"cta-btn"},    timer |-> FALSE],
      [reads |-> {"document"},            listens |-> {"contact-form"}, timer |-> FALSE],
      [reads |-> {"document"},            listens |-> {"buy-btn", "buy-btn disabled"},
                                                                      timer |-> FALSE],
      [reads |-> {"document"},            listens |-> {"nav-toggle"}, timer |-> FALSE],
      [reads |-> {"window"},              listens |-> {"scroll"},     timer |-> FALSE],
      [reads |-> {"setTimeout"},          listens |-> {},             timer |-> TRUE]>>

\* what the elements' click listeners read when they run
ClickReads(target) ==
    CASE target = "cta-btn"          -> {"alert"}
      [] target = "buy-btn"          -> {"console", "trackPurchase"}
      [] target = "buy-btn disabled" -> {}
      [] OTHER                       -> {"console"}

ClickTargets == {"cta-btn", "buy-btn", "buy-btn disabled", "nav-toggle"}

\* running statements in order: a read of an undefined identifier throws a
\* ReferenceError, which ends the function
RECURSIVE RunStatements(_, _)
RunStatements(stmts, done) ==
    IF stmts = <<>> THEN done
    ELSE LET s == Head(stmts)
             undefinedReads == s.reads \ DefinedGlobals
         IN  IF undefinedReads # {}
             THEN [done EXCEPT !.errors = @ \cup undefinedReads]
             ELSE RunStatements(Tail(stmts),
                     [listens |-> done.listens \cup s.listens,
                      timer   |-> done.timer \/ s.timer,
                      errors  |-> done.errors])

InitDemo ==
    /\ demoLoaded = FALSE
    /\ demoListeners = {}
    /\ demoTimer = -1
    /\ demoClock = 0
    /\ demoClicks = [t \in ClickTargets |-> 0]
    /\ demoErrors = {}

\* the DOMContentLoaded handler runs
DemoLoad ==
    /\ ~demoLoaded
    /\ LET run == RunStatements(HandlerStatements,
                                [listens |-> {}, timer |-> FALSE, errors |-> {}])
       IN  /\ demoListeners' = run.listens
           /\ demoTimer' = IF run.timer THEN demoClock + TimerDelay ELSE -1
           /\ demoErrors' = demoErrors \cup run.errors
    /\ demoLoaded' = TRUE
    /\ UNCHANGED <<demoClock, demoClicks>>
    /\ DemoFrame

\* the user clicks an element; a disabled button dispatches no click
DemoClick(target) ==
    /\ demoLoaded
    /\ demoClicks[target] < MaxClicks
    /\ demoClicks' = [demoClicks EXCEPT ![target] = @ + 1]
    /\ demoErrors' =
          IF target \in demoListeners /\ target # "buy-btn disabled"
          THEN demoErrors \cup (ClickReads(target) \ DefinedGlobals)
          ELSE demoErrors
    /\ UNCHANGED <<demoLoaded, demoListeners, demoTimer, demoClock>>
    /\ DemoFrame

\* a second passes; a timer that is due runs its callback, which reads
\* analytics
DemoTick ==
    /\ demoLoaded
    /\ demoClock < MaxSeconds
    /\ demoClock' = demoClock + 1
    /\ IF demoTimer = demoClock'
       THEN /\ demoErrors' = demoErrors \cup ({"console", "analytics"} \ DefinedGlobals)
            /\ demoTimer' = -1
       ELSE UNCHANGED <<demoErrors, demoTimer>>
    /\ UNCHANGED <<demoLoaded, demoListeners, demoClicks>>
    /\ DemoFrame

NextDemo ==
    \/ DemoLoad
    \/ \E target \in ClickTargets : DemoClick(target)
    \/ DemoTick

-----------------------------------------------------------------------------
(* Review context: gatherContext of the review engine *)

MAX_CONTEXT_CHARS == 200000

\* content.length > 50000: the file is cut to its first 5000 characters
LargeFileChars == 50000
ShownChars == 5000

\* depContent.length < 20000
DependentLimit == 20000

\* dependents.slice(0, 3)
DependentsTaken == 3

\* the length of '[File too large: N chars, showing first 5000]\n' for a
\* length N of five digits
NoticeChars == 50

Unreadable == -1

\* the lengths of the changed files on disk
ChangedLengths == {Unreadable, 1000, LargeFileChars, LargeFileChars + 1}

\* the files that may reference a changed file, and their lengths
DependentPaths == {<<"dep", 1>>, <<"dep", 2>>, <<"dep", 3>>, <<"dep", 4>>}

DependentLength(p) ==
    CASE p[2] = 1 -> DependentLimit - 1
      [] p[2] = 2 -> DependentLimit
      [] p[2] = 3 -> Unreadable
      [] OTHER    -> DependentLimit - 1

\* what findDependents may return
DependentLists ==
    {<<>>,
     <<<<"dep", 1>>, <<"dep", 2>>>>,
     <<<<"dep", 3>>, <<"dep", 2>>, <<"dep", 1>>, <<"dep", 4>>>>,
     <<<<"dep", 4>>, <<"dep", 1>>>>}

FirstN(s, n) == SubSeq(s, 1, IF Len(s) < n THEN Len(s) ELSE n)

\* Math.min
Min(a, b) == IF a < b THEN a ELSE b

\* the loop over dependents.slice(0, 3), on the pair of counter and files
RECURSIVE IncludeDependents(_, _)
IncludeDependents(deps, st) ==
    IF deps = <<>> THEN st
    ELSE IF st.total > MAX_CONTEXT_CHARS THEN st
    ELSE LET dep == Head(deps)
             len == DependentLength(dep)
         IN  IF len # Unreadable /\ dep \notin DOMAIN st.files /\ len < DependentLimit
             THEN IncludeDependents(Tail(deps),
                      [total |-> st.total + len, files |-> (dep :> len) @@ st.files])
             ELSE IncludeDependents(Tail(deps), st)

InitGather ==
    /\ gcPc = "loop"
    /\ gcIndex = 0
    /\ gcCount \in 0 .. MaxFiles
    /\ totalChars = 0
    /\ contextFiles = EmptyTable

\* if (file.isDeleted) continue
GatherDeleted ==
    /\ gcPc = "loop"
    /\ gcIndex < gcCount
    /\ gcIndex' = gcIndex + 1
    /\ UNCHANGED <<gcPc, gcCount, totalChars, contextFiles>>
    /\ GatherFrame

\* if (totalChars > MAX_CONTEXT_CHARS) break, and the return after the loop
GatherReturn ==
    /\ gcPc = "loop"
    /\ gcIndex = gcCount \/ totalChars > MAX_CONTEXT_CHARS
    /\ gcPc' = "done"
    /\ UNCHANGED <<gcIndex, gcCount, totalChars, contextFiles>>
    /\ GatherFrame

\* one pass of the loop for a file that is not deleted: its content, then
\* its dependents
GatherFile(len, dependents) ==
    /\ gcPc = "loop"
    /\ gcIndex < gcCount
    /\ totalChars <= MAX_CONTEXT_CHARS
    /\ LET path == <<"changed", gcIndex + 1>>
           own  == IF len = Unreadable
                   THEN [total |-> totalChars, files |-> contextFiles]
                   ELSE [total |-> totalChars + Min(len, LargeFileChars),
                         files |-> (path :> (IF len > LargeFileChars
                                             THEN NoticeChars + ShownChars
                                             ELSE len)) @@ contextFiles]
           all  == IncludeDependents(FirstN(dependents, DependentsTaken), own)
       IN  /\ totalChars' = all.total
           /\ contextFiles' = all.files
    /\ gcIndex' = gcIndex + 1
    /\ UNCHANGED <<gcPc, gcCount>>
    /\ GatherFrame

NextGather ==
    \/ GatherDeleted
    \/ GatherReturn
    \/ \E len \in ChangedLengths, dependents \in DependentLists : GatherFile(len, dependents)

-----------------------------------------------------------------------------
(* Network error records and their consumers *)

\* what the requestfailed listeners push
FailedRecords ==
    {[url |-> u, method |-> m, failure |-> f] :
        u \in {"https://a.test/api"}, m \in {"GET", "POST"},
        f \in {"net::ERR_FAILED", "Unknown error"}}

\* what the response listeners push for a status of 400 or more: capturePage
\* with statusText, capturePageData without
HttpRecords ==
    {[url |-> u, method |-> m, status |-> s, statusText |-> t] :
        u \in {"https://a.test/api"}, m \in {"GET", "POST"}, s \in {"404", "500"},
        t \in {"", "Not Found"}}
    \cup {[url |-> u, method |-> m, status |-> s] :
        u \in {"https://a.test/api"}, m \in {"GET", "POST"}, s \in {"404", "500"}}

NetworkRecords == FailedRecords \cup HttpRecords

\* a property of an object in a template literal: the text 'undefined' when
\* the object does not have it
Property(e, field) == IF field \in DOMAIN e THEN e[field] ELSE "undefined"

\* a || b on properties: the first when it is there and not empty
OrElse(e, first, second) ==
    IF first \in DOMAIN e /\ e[first] # "" THEN e[first] ELSE second

\* buildPrompt: `- ${e.url}: ${e.status} ${e.statusText}`
PromptLine(e) ==
    <<"- ", Property(e, "url"), ": ", Property(e, "status"), " ",
      Property(e, "statusText")>>

\* the character that opens and closes inline code in Markdown
Backtick == "BACKTICK"

\* generateMarkdownReport:
\* `- \`${error.method || 'GET'} ${error.url}\`: ${error.status || error.failure}`
ReportLine(e) ==
    <<"- ", Backtick, OrElse(e, "method", "GET"), " ", Property(e, "url"), Backtick,
      ": ", OrElse(e, "status", Property(e, "failure"))>>

InitRender ==
    /\ networkErrors \in SeqsUpTo(NetworkRecords, MaxErrors)
    /\ promptLines = <<>>
    /\ reportLines = <<>>
    /\ rendered = {}

\* BaseProvider.buildPrompt(captureData, options)
BuildPrompt ==
    /\ "buildPrompt" \notin rendered
    /\ promptLines' = [i \in DOMAIN networkErrors |-> PromptLine(networkErrors[i])]
    /\ rendered' = rendered \cup {"buildPrompt"}
    /\ UNCHANGED <<networkErrors, reportLines>>
    /\ RenderFrame

\* generateMarkdownReport(report)
GenerateMarkdownReport ==
    /\ "generateMarkdownReport" \notin rendered
    /\ reportLines' = [i \in DOMAIN networkErrors |-> ReportLine(networkErrors[i])]
    /\ rendered' = rendered \cup {"generateMarkdownReport"}
    /\ UNCHANGED <<networkErrors, promptLines>>
    /\ RenderFrame

NextRender ==
    \/ BuildPrompt
    \/ GenerateMarkdownReport

-----------------------------------------------------------------------------
(* The network logger: createNetworkLogger of scripts/page-utils.js *)

\* SLOW_THRESHOLD = 3000, in seconds
SLOW_THRESHOLD == 3

LoggedUrls == {"https://a.test/api", "https://a.test/img"}

\* the statuses of responses
Statuses == {200, 404}

\* an entry without endTime
NoEndTime == 0

\* requests.find((r) => r.url === url && !r.endTime): the index of the first
\* such entry, 0 when there is none
FindEntry(url) ==
    LET open == {i \in DOMAIN logRequests :
                    logRequests[i].url = url /\ logRequests[i].endTime = NoEndTime}
    IN  IF open = {} THEN 0
        ELSE CHOOSE i \in open : \A j \in open : i <= j

\* find without the test of endTime
FindEntryEnded(url) ==
    LET same == {i \in DOMAIN logRequests : logRequests[i].url = url}
    IN  IF same = {} THEN 0
        ELSE CHOOSE i \in same : \A j \in same : i <= j

InitLogger ==
    /\ logClock = 1
    /\ logRequests = <<>>
    /\ logFailures = <<>>
    /\ slowRequests = <<>>

LoggerTick ==
    /\ logClock < MaxLogTime
    /\ logClock' = logClock + 1
    /\ UNCHANGED <<logRequests, logFailures, slowRequests>>
    /\ LoggerFrame

\* onRequest
LoggerOnRequest(url) ==
    /\ Len(logRequests) < MaxLogged
    /\ logRequests' = Append(logRequests,
          [url |-> url, startTime |-> logClock, endTime |-> NoEndTime,
           status |-> 0, failed |-> FALSE])
    /\ UNCHANGED <<logClock, logFailures, slowRequests>>
    /\ LoggerFrame

\* onResponse that takes the first entry of the URL, completed or not
LoggerOnResponseAnyEntry(url, status) ==
    /\ LET entry == FindEntryEnded(url)
       IN  IF entry = 0
           THEN UNCHANGED <<logRequests, logFailures, slowRequests>>
           ELSE /\ logRequests' = [logRequests EXCEPT ![entry].endTime = logClock,
                                                      ![entry].status = status]
                /\ slowRequests' =
                      IF logClock - logRequests[entry].startTime > SLOW_THRESHOLD
                      THEN Append(slowRequests, entry) ELSE slowRequests
                /\ logFailures' =
                      IF status >= 400
                      THEN Append(logFailures, [entry |-> entry, by |-> "response"])
                      ELSE logFailures
    /\ UNCHANGED logClock
    /\ LoggerFrame

\* onResponse
LoggerOnResponse(url, status) ==
    /\ LET entry == FindEntry(url)
       IN  IF entry = 0
           THEN UNCHANGED <<logRequests, logFailures, slowRequests>>
           ELSE /\ logRequests' = [logRequests EXCEPT ![entry].endTime = logClock,
                                                      ![entry].status = status]
                /\ slowRequests' =
                      IF logClock - logRequests[entry].startTime > SLOW_THRESHOLD
                      THEN Append(slowRequests, entry) ELSE slowRequests
                /\ logFailures' =
                      IF status >= 400
                      THEN Append(logFailures, [entry |-> entry, by |-> "response"])
                      ELSE logFailures
    /\ UNCHANGED logClock
    /\ LoggerFrame

\* onRequestFailed
LoggerOnRequestFailed(url) ==
    /\ LET entry == FindEntry(url)
       IN  IF entry = 0
           THEN UNCHANGED <<logRequests, logFailures>>
           ELSE /\ logRequests' = [logRequests EXCEPT ![entry].endTime = logClock,
                                                      ![entry].failed = TRUE]
                /\ logFailures' = Append(logFailures,
                                         [entry |-> entry, by |-> "requestfailed"])
    /\ UNCHANGED <<logClock, slowRequests>>
    /\ LoggerFrame

\* getSummary
LoggerSummary ==
    [totalRequests |-> Len(logRequests), failedRequests |-> Len(logFailures),
     slowRequests |-> Len(slowRequests)]

NextLogger ==
    \/ LoggerTick
    \/ \E url \in LoggedUrls : LoggerOnRequest(url)
    \/ \E url \in LoggedUrls, status \in Statuses : LoggerOnResponse(url, status)
    \/ \E url \in LoggedUrls : LoggerOnRequestFailed(url)

-----------------------------------------------------------------------------
(* Specifications: one per part, the other parts at rest *)

\* the provider part at rest
IdleProv ==
    /\ env = EmptyEnv
    /\ detected = None
    /\ provider = None
    /\ provError = ""
    /\ method = "none"
    /\ requests = 0
    /\ llmText = <<>>
    /\ outcome = "none"
    /\ report = None
    /\ vpc = "off"

\* the parsing part at rest
IdleParse ==
    /\ text = <<>>
    /\ fenced = <<>>
    /\ res = None
    /\ resF = None
    /\ files = None
    /\ filesF = None
    /\ ppc = "off"

\* the command line part at rest
IdleCli ==
    /\ cmd = "none"
    /\ opts = DefaultOpts
    /\ pc = "off"
    /\ cprov = None
    /\ calls = <<>>
    /\ raised = ""
    /\ printed = {}
    /\ exitCode = -1
    /\ cliReport = None
    /\ genResult = None
    /\ todo = 0
    /\ results = <<>>
    /\ detectedCount = 0
    /\ reportFile = <<>>

\* no waitForPageReady call under way
IdleReady ==
    /\ clock = 0
    /\ readyOptions = [timeout |-> 0, networkIdleTime |-> 0, nonCriticalTimeout |-> 0]
    /\ pendingRequests = {}
    /\ issued = 0
    /\ inflight = {}
    /\ listening = FALSE
    /\ wakeAt = 0
    /\ readyResult = None
    /\ readyError = ""
    /\ rpc = "off"

\* no capture under way
IdleCapture ==
    /\ capFn = "none"
    /\ capViewports = <<>>
    /\ capI = 1
    /\ capPc = "off"
    /\ browser = "none"
    /\ closes = 0
    /\ pageViewport = None
    /\ entryViewport = None
    /\ originalViewport = None
    /\ screenshots = <<>>
    /\ warned = <<>>
    /\ capCall = 1
    /\ attached = {}
    /\ consoleErrors = [c \in 1 .. MaxCalls |-> 0]
    /\ returnedErrors = [c \in 1 .. MaxCalls |-> -1]
    /\ capStatus = [c \in 1 .. MaxCalls |-> "none"]
    /\ capError = ""

\* no page with references
IdleAria ==
    /\ dom = <<>>
    /\ nextEl = 1
    /\ qaRefs = EmptyTable
    /\ snapCount = 0
    /\ prevLabels = EmptyTable
    /\ lastLabels = EmptyTable
    /\ lastRefCount = 0
    /\ quiet = FALSE
    /\ quietPair = FALSE
    /\ handedOut = {}
    /\ refCall = NoRefCall

\* no crawl
IdleCrawl ==
    /\ site = "chain"
    /\ crawlPc = "done"
    /\ toVisit = <<>>
    /\ visited = {}
    /\ navigated = <<>>
    /\ failedLoads = 0
    /\ pages = <<>>
    /\ interactions = <<>>
    /\ crawlStatus = "returned"
    /\ crawlError = ""
    /\ crawlBrowser = "none"
    /\ startValid = TRUE

\* no comparison
IdleCompare ==
    /\ baselineDir = NoDir
    /\ currentDir = NoDir
    /\ failThreshold = DefaultFailThreshold
    /\ cmpPc = "done"
    /\ allFiles = <<>>
    /\ cmpResults = <<>>
    /\ passed = 0
    /\ failed = 0
    /\ missing = 0
    /\ newImages = 0
    /\ summary = None
    /\ cmpStatus = "returned"

\* no description being matched
IdleMatch ==
    /\ expectedDescription = <<>>
    /\ actualDescription = <<>>
    /\ matchPc = "done"
    /\ keywords = <<>>
    /\ descMatch = TRUE

\* no demo page open
IdleDemo ==
    /\ demoLoaded = FALSE
    /\ demoListeners = {}
    /\ demoTimer = -1
    /\ demoClock = 0
    /\ demoClicks = [t \in ClickTargets |-> 0]
    /\ demoErrors = {}

\* no context being gathered
IdleGather ==
    /\ gcPc = "done"
    /\ gcIndex = 0
    /\ gcCount = 0
    /\ totalChars = 0
    /\ contextFiles = EmptyTable

\* no network errors being rendered
IdleRender ==
    /\ networkErrors = <<>>
    /\ promptLines = <<>>
    /\ reportLines = <<>>
    /\ rendered = {}

\* no network logger
IdleLogger ==
    /\ logClock = 1
    /\ logRequests = <<>>
    /\ logFailures = <<>>
    /\ slowRequests = <<>>

InitProvRun ==
    /\ InitProv
    /\ IdleParse
    /\ IdleCli
    /\ IdleReady
    /\ IdleCapture
    /\ IdleAria
    /\ IdleCrawl
    /\ IdleCompare
    /\ IdleMatch
    /\ IdleDemo
    /\ IdleGather
    /\ IdleRender
    /\ IdleLogger

SpecProv == InitProvRun /\ [][NextProv]_vars

InitParseRun ==
    /\ InitParse
    /\ IdleProv
    /\ IdleCli
    /\ IdleReady
    /\ IdleCapture
    /\ IdleAria
    /\ IdleCrawl
    /\ IdleCompare
    /\ IdleMatch
    /\ IdleDemo
    /\ IdleGather
    /\ IdleRender
    /\ IdleLogger

SpecParse == InitParseRun /\ [][NextParse]_vars

Init ==
    /\ InitCli
    /\ IdleParse
    /\ IdleCrawl
    /\ IdleCompare
    /\ IdleMatch
    /\ IdleDemo
    /\ IdleGather
    /\ IdleRender
    /\ IdleLogger
    /\ detected = None
    /\ provider = None
    /\ provError = ""
    /\ method = "none"
    /\ requests = 0
    /\ llmText = <<>>
    /\ outcome = "none"
    /\ report = None
    /\ vpc = "off"
    /\ IdleReady
    /\ IdleCapture
    /\ IdleAria

Spec == Init /\ [][Next]_vars

InitReadyRun ==
    /\ InitReady
    /\ IdleParse
    /\ IdleProv
    /\ IdleCli
    /\ IdleCapture
    /\ IdleAria
    /\ IdleCrawl
    /\ IdleCompare
    /\ IdleMatch
    /\ IdleDemo
    /\ IdleGather
    /\ IdleRender
    /\ IdleLogger

SpecReady == InitReadyRun /\ [][NextReady]_vars

InitCaptureRun ==
    /\ InitCapture
    /\ IdleParse
    /\ IdleProv
    /\ IdleCli
    /\ IdleReady
    /\ IdleAria
    /\ IdleCrawl
    /\ IdleCompare
    /\ IdleMatch
    /\ IdleDemo
    /\ IdleGather
    /\ IdleRender
    /\ IdleLogger

SpecCapture == InitCaptureRun /\ [][NextCapture]_vars

InitAriaRun ==
    /\ InitAria
    /\ IdleProv
    /\ IdleParse
    /\ IdleCli
    /\ IdleReady
    /\ IdleCapture
    /\ IdleCrawl
    /\ IdleCompare
    /\ IdleMatch
    /\ IdleDemo
    /\ IdleGather
    /\ IdleRender
    /\ IdleLogger

SpecAria == InitAriaRun /\ [][NextAria]_vars

InitCrawlRun ==
    /\ InitCrawl
    /\ IdleProv
    /\ IdleParse
    /\ IdleCli
    /\ IdleReady
    /\ IdleCapture
    /\ IdleAria
    /\ IdleCompare
    /\ IdleMatch
    /\ IdleDemo
    /\ IdleGather
    /\ IdleRender
    /\ IdleLogger

SpecCrawl == InitCrawlRun /\ [][NextCrawl]_vars

\* every await of crawlSite settles and its continuation is run
SpecCrawlFair == InitCrawlRun /\ [][NextCrawl]_vars /\ WF_vars(NextCrawl)

InitCompareRun ==
    /\ InitCompare
    /\ IdleProv
    /\ IdleParse
    /\ IdleCli
    /\ IdleReady
    /\ IdleCapture
    /\ IdleAria
    /\ IdleCrawl
    /\ IdleMatch
    /\ IdleDemo
    /\ IdleGather
    /\ IdleRender
    /\ IdleLogger

SpecCompare == InitCompareRun /\ [][NextCompare]_vars

InitMatchRun ==
    /\ InitMatch
    /\ IdleProv
    /\ IdleParse
    /\ IdleCli
    /\ IdleReady
    /\ IdleCapture
    /\ IdleAria
    /\ IdleCrawl
    /\ IdleCompare
    /\ IdleDemo
    /\ IdleGather
    /\ IdleRender
    /\ IdleLogger

SpecMatch == InitMatchRun /\ [][NextMatch]_vars

InitDemoRun ==
    /\ InitDemo
    /\ IdleProv
    /\ IdleParse
    /\ IdleCli
    /\ IdleReady
    /\ IdleCapture
    /\ IdleAria
    /\ IdleCrawl
    /\ IdleCompare
    /\ IdleMatch
    /\ IdleGather
    /\ IdleRender
    /\ IdleLogger

SpecDemo == InitDemoRun /\ [][NextDemo]_vars

InitGatherRun ==
    /\ InitGather
    /\ IdleProv
    /\ IdleParse
    /\ IdleCli
    /\ IdleReady
    /\ IdleCapture
    /\ IdleAria
    /\ IdleCrawl
    /\ IdleCompare
    /\ IdleMatch
    /\ IdleDemo
    /\ IdleRender
    /\ IdleLogger

SpecGather == InitGatherRun /\ [][NextGather]_vars

InitRenderRun ==
    /\ InitRender
    /\ IdleProv
    /\ IdleParse
    /\ IdleCli
    /\ IdleReady
    /\ IdleCapture
    /\ IdleAria
    /\ IdleCrawl
    /\ IdleCompare
    /\ IdleMatch
    /\ IdleDemo
    /\ IdleGather
    /\ IdleLogger

SpecRender == InitRenderRun /\ [][NextRender]_vars

InitLoggerRun ==
    /\ InitLogger
    /\ IdleProv
    /\ IdleParse
    /\ IdleCli
    /\ IdleReady
    /\ IdleCapture
    /\ IdleAria
    /\ IdleCrawl
    /\ IdleCompare
    /\ IdleMatch
    /\ IdleDemo
    /\ IdleGather
    /\ IdleRender

SpecLogger == InitLoggerRun /\ [][NextLogger]_vars

-----------------------------------------------------------------------------
(* Claims about the command line entry points *)

\* failures of the world around the run, as opposed to errors of the program
ExternalFailures == {"crawl failed", "request failed", "write failed",
                     "capture failed", "Failed to get diff", "compare failed",
                     "copy failed", "dataset unreadable"}

\* C1: for a target that is a URL, or a source file or directory with an
\* eligible source, and a provider detectable from the environment,
\* generateTests runs to completion and returns a result naming the mode
\* ('e2e' or 'unit'), the file count, the files and the output directory,
\* instead of raising.
C1_GenerateTestsReturnsResult ==
    (/\ cmd = "generate"
     /\ pc = "exited"
     /\ opts.target \in {"url", "file", "dir"}
     /\ getProvider(env).ok
     /\ raised \notin ExternalFailures)
        => /\ raised = ""
           /\ genResult # None
           /\ genResult.mode = (IF opts.target = "url" THEN "e2e" ELSE "unit")

\* C3: in the scan, review and generate commands a configuration error about
\* the provider (none detectable, or an unrecognized name) is raised before
\* any external call: no browser launch, no git / gh, no text search and no
\* LLM request has happened.
C3_ProviderErrorBeforeExternalCalls ==
    (cmd \in {"scan", "review", "generate"} /\ raised \in ConfigErrors)
        => calls = <<>>

\* C4: every entry point catches an error raised during its run, prints its
\* message and ends the process with a non-zero exit code.
C4_ErrorsExitNonZero ==
    (pc = "exited" /\ raised # "")
        => (exitCode # 0 /\ "message" \in printed)

\* C5: the review command exits with code 1 if and only if at least one issue
\* of the returned report has severity exactly 'critical', in --json and in
\* Markdown mode; a report with only other severities, or with no issues
\* list, exits 0.  (A run that raised an error has no exit code of this kind:
\* it is the handler's.)
C5_ReviewExitsOneIffCritical ==
    (cmd = "review" /\ pc = "exited" /\ raised = "")
        => /\ exitCode \in {0, 1}
           /\ exitCode = 1 <=>
                (/\ cliReport.hasIssues
                 /\ \E i \in DOMAIN cliReport.issues : cliReport.issues[i] = "critical")

\* C5 witness: a Markdown-mode review whose report holds a critical issue next
\* to another one exited with code 1.
C5_Witness ==
    /\ cmd = "review"
    /\ pc = "exited"
    /\ raised = ""
    /\ ~opts.json
    /\ exitCode = 1
    /\ Len(cliReport.issues) > 1
    /\ \E i \in DOMAIN cliReport.issues : cliReport.issues[i] # "critical"

-----------------------------------------------------------------------------
(* Claims about waitForPageReady *)

\* the entries whose grace period is over
Expired ==
    {req \in pendingRequests :
        /\ req.type \in NON_CRITICAL_TYPES
        /\ clock - req.startTime >= readyOptions.nonCriticalTimeout}

\* C9: when exactly one non-ignored request of a non-critical resource type
\* is outstanding and never completes, and nothing else is outstanding,
\* waitForPageReady returns ready: true once the grace period of the request
\* has expired and a quiet networkIdleTime has passed, before the outer
\* timeout.
C9_ReadyAfterGracePeriod ==
    (/\ rpc = "returned"
     /\ readyResult.loadTime < readyOptions.timeout
     /\ Cardinality(pendingRequests) = 1
     /\ Expired = pendingRequests)
        => readyResult.ready = TRUE

\* C10: waitForPageReady never raises; whenever the outer timeout elapses,
\* also while the 'domcontentloaded' load state is awaited, it returns a
\* value with the URLs still outstanding, and ready: false when there are
\* any.
C10_TimeoutReturnsValue ==
    /\ rpc # "raised"
    /\ readyError = ""
    /\ (rpc = "returned" /\ readyResult.loadTime >= readyOptions.timeout)
          => /\ readyResult.pendingRequests = {req.url : req \in pendingRequests}
             /\ (pendingRequests # {} => readyResult.ready = FALSE)

-----------------------------------------------------------------------------
(* Claims about the capture functions *)

\* the size a viewport name stands for: desktop, tablet, mobile in any letter
\* case; nothing for any other name
NamedSize(name) ==
    CASE toLowerCase(name) = "desktop" -> [width |-> 1920, height |-> 1080]
      [] toLowerCase(name) = "tablet"  -> [width |-> 768,  height |-> 1024]
      [] toLowerCase(name) = "mobile"  -> [width |-> 375,  height |-> 667]
      [] OTHER                         -> None

RECURSIVE SizesOf(_)
SizesOf(names) ==
    IF names = <<>> THEN <<>>
    ELSE IF NamedSize(Head(names)) = None THEN SizesOf(Tail(names))
    ELSE <<NamedSize(Head(names))>> \o SizesOf(Tail(names))

RECURSIVE UnknownOf(_)
UnknownOf(names) ==
    IF names = <<>> THEN <<>>
    ELSE IF NamedSize(Head(names)) = None
         THEN <<Head(names)>> \o UnknownOf(Tail(names))
         ELSE UnknownOf(Tail(names))

ShotSizes == [i \in DOMAIN screenshots |->
                [width |-> screenshots[i].width, height |-> screenshots[i].height]]

\* C11: in capturePage and in capturePageData a viewport name equal to
\* desktop, tablet or mobile in any letter case gives one screenshot of
\* 1920x1080, 768x1024, 375x667; any other string is skipped with a warning,
\* gives no screenshot and never makes the capture raise.
C11_ViewportNamesResolve ==
    /\ capError # "viewportSize: expected integer"
    /\ capStatus[capCall] = "returned" =>
          /\ ShotSizes = SizesOf(capViewports)
          /\ warned = UnknownOf(capViewports)

\* C12: once capturePage has launched the browser, browser.close() is called
\* exactly once before capturePage returns or raises, whatever step failed,
\* and not before.
C12_BrowserClosedExactlyOnce ==
    capFn = "capturePage" =>
        /\ closes <= 1
        /\ capPc # "ended" => closes = 0
        /\ (capPc = "ended" /\ browser # "none") => (closes = 1 /\ browser = "closed")
        /\ browser = "none" => closes = 0

\* C12 witness: capturePage raised because a screenshot failed after an
\* earlier one succeeded, and the browser was closed once.
C12_Witness ==
    /\ capFn = "capturePage"
    /\ capPc = "ended"
    /\ capStatus[capCall] = "raised"
    /\ capError = "screenshot failed"
    /\ Len(screenshots) >= 1
    /\ closes = 1

\* C24: when the navigation wait of capturePage (page.goto with the timeout,
\* waiting for network idle) expires, capturePage returns the partial
\* CaptureData instead of raising.
C24_NavigationTimeoutReturnsPartial ==
    (capFn = "capturePage" /\ capPc = "ended" /\ capError = "navigation failed") =>
        capStatus[capCall] = "returned"

\* C13: after a call to capturePageData has ended, none of the listeners it
\* attached is on the page, and no later event is appended to the
\* consoleErrors list it returned.
C13_NoListenerAfterCall ==
    \A c \in 1 .. MaxCalls :
        /\ capStatus[c] \in {"returned", "raised"} => c \notin attached
        /\ capStatus[c] = "returned" => consoleErrors[c] = returnedErrors[c]

\* C14 as stated: after capturePageData returns, the page's viewport size
\* equals the size the page had when it was called.
C14_ViewportRestored ==
    (capFn = "capturePageData" /\ capStatus[capCall] = "returned")
        => pageViewport = entryViewport

\* C14 amended: after capturePageData returns, a page that had a viewport
\* size when it was called has that size again; a page that had none (null)
\* is left at the size of the last screenshot taken, or without a size when
\* none was taken.
C14_ViewportRestoredWhenSaved ==
    (capFn = "capturePageData" /\ capStatus[capCall] = "returned")
        => IF entryViewport # None
           THEN pageViewport = entryViewport
           ELSE pageViewport = IF screenshots = <<>> THEN None
                               ELSE ShotSizes[Len(screenshots)]

\* C14 witness: a call that resized the page twice returned with the
\* caller's size back in place.
C14_Witness ==
    /\ capFn = "capturePageData"
    /\ capStatus[capCall] = "returned"
    /\ entryViewport # None
    /\ Len(screenshots) = 2
    /\ pageViewport = entryViewport

-----------------------------------------------------------------------------
(* Claims about element references *)

\* C15: when getAriaSnapshot is called twice with no DOM mutation and no
\* navigation between the calls, every element that carries a reference in the
\* first snapshot carries the same reference in the second.
C15_RefsStableWithoutMutation ==
    (snapCount >= 2 /\ quietPair) =>
        \A el \in DOMAIN prevLabels :
            el \in DOMAIN lastLabels /\ lastLabels[el] = prevLabels[el]

\* C16: the reference table of a page is append-only: a reference that a
\* snapshot handed out for an element still resolves, through selectByRef, to
\* that element after later snapshots and DOM additions.
C16_RefTableAppendOnly ==
    \A pair \in handedOut :
        selectByRef(qaRefs, pair[1]) = [handle |-> "ElementHandle", element |-> pair[2]]

\* C17: clickByRef and typeByRef, called with a reference that has no entry in
\* the table, raise 'Element with ref <token> not found', click and fill
\* nothing, and raise no other error.
C17_MissingRefNotFound ==
    (refCall.op # "none" /\ ~refCall.entry) =>
        /\ refCall.outcome = "raised"
        /\ refCall.error = "Element with ref not found"

-----------------------------------------------------------------------------
(* Claims about the crawler *)

\* C18: a crawl navigates to at most 10 distinct URLs and to none of them
\* twice; every navigated URL but the start URL has the origin of the start
\* URL; a page that fails to load is skipped without aborting the crawl and
\* adds neither a PageRecord nor interactions.
C18_CrawlBounded ==
    /\ Len(navigated) <= 10
    /\ \A i, j \in DOMAIN navigated : navigated[i] = navigated[j] => i = j
    /\ \A i \in DOMAIN navigated :
          navigated[i] # StartUrl => navigated[i].origin = StartUrl.origin
    /\ Len(pages) + failedLoads = Len(navigated)
    /\ \A i \in DOMAIN interactions :
          \E k \in DOMAIN pages : pages[k].url = interactions[i].page
    /\ crawlStatus = "raised" => crawlError \in {"no playwright", "launch failed", "context failed",
                                              "page failed", "Invalid URL", "close failed"}

\* a crawl that returned after ten navigations, one of which failed, with
\* links to another origin seen and URLs left in the queue
C18_Witness ==
    /\ crawlStatus = "returned"
    /\ Len(navigated) = 10
    /\ failedLoads > 0
    /\ toVisit # <<>>
    /\ \E i \in DOMAIN interactions : interactions[i].href = Cross

\* C28: crawlSite always terminates, whatever the links of the site and
\* whichever pages fail to load: the loop ends when 10 URLs have been marked
\* visited or the queue is empty, and no other timeout is needed.
C28_CrawlTerminates ==
    /\ <>(crawlPc = "done")
    /\ [](crawlStatus = "returned" =>
            /\ Cardinality(visited) <= 10
            /\ toVisit = <<>> \/ Cardinality(visited) = 10)

\* a crawl that ended at the cap with URLs left in the queue, after skipping
\* pages that failed to load
C28_Witness ==
    /\ crawlPc = "done"
    /\ crawlStatus = "returned"
    /\ Cardinality(visited) = 10
    /\ toVisit # <<>>
    /\ failedLoads >= 2

\* C30: once crawlSite has launched the browser, browser.close() has been
\* called by the time crawlSite returns or raises, on every exit path.
C30_BrowserClosedOnEveryExit ==
    (crawlPc = "done" /\ crawlBrowser # "none") =>
        crawlBrowser \in {"closing", "closed"}

-----------------------------------------------------------------------------
(* Claims about the visual regression comparison *)

\* the PNG file names of a directory
PngNames(dir) == IF dir = NoDir THEN {} ELSE {f \in FileNames : dir[f] # Absent /\ EndsWithPng(f)}

\* the status the precedence rule gives a file name of the union
RuleStatus(f) ==
    IF f \notin PngNames(baselineDir) THEN "new"
    ELSE IF f \notin PngNames(currentDir) THEN "missing"
    ELSE LET c == compareImages(baselineDir[f], currentDir[f])
         IN  IF c.error = "dimension_mismatch" THEN "failed"
             ELSE IF c.diffPercent > failThreshold THEN "failed"
             ELSE IF c.diffPixels > 0 THEN "warning"
             ELSE "passed"

CountStatus(statuses) ==
    Cardinality({i \in DOMAIN cmpResults : cmpResults[i].status \in statuses})

\* C19: compareDirectories gives every PNG file name of the union of the two
\* directories exactly one status, by the precedence new, missing, dimension
\* mismatch, over the fail threshold, some pixels differ, passed; each file
\* adds one to exactly one counter, warnings to passed, so that total = passed
\* + failed + missing + new, and passRate is 100 when total is 0.
C19_OneStatusPerFile ==
    cmpStatus = "returned" /\ summary # None =>
        /\ \A f \in PngNames(baselineDir) \cup PngNames(currentDir) :
              \E i \in DOMAIN cmpResults :
                  /\ cmpResults[i].file = f
                  /\ cmpResults[i].status = RuleStatus(f)
                  /\ \A j \in DOMAIN cmpResults : cmpResults[j].file = f => j = i
        /\ \A i \in DOMAIN cmpResults :
              cmpResults[i].file \in PngNames(baselineDir) \cup PngNames(currentDir)
        /\ summary.passed = CountStatus({"passed", "warning"})
        /\ summary.failed = CountStatus({"failed"})
        /\ summary.missing = CountStatus({"missing"})
        /\ summary.new = CountStatus({"new"})
        /\ summary.total = summary.passed + summary.failed + summary.missing + summary.new
        /\ summary.total = 0 => summary.passRate = 1000

\* a comparison that returned a warning next to a file of another status
C19_Witness ==
    /\ cmpStatus = "returned"
    /\ summary # None
    /\ \E i \in DOMAIN cmpResults : cmpResults[i].status = "warning"
    /\ \E i \in DOMAIN cmpResults : cmpResults[i].status \in {"new", "missing", "failed"}

\* a comparison of two directories without PNG files
C19_WitnessEmpty ==
    /\ cmpStatus = "returned"
    /\ summary # None
    /\ summary.total = 0

-----------------------------------------------------------------------------
(* Claims about the benchmark scoring *)

\* how many of the given tokens the description being matched contains,
\* whatever the case of its letters
Contained(tokens) ==
    Cardinality({t \in tokens : Includes(LowerText(actualDescription), t)})

FiveTokens ==
    {<<"s", "q", "l">>,
     <<"i", "n", "j", "e", "c", "t", "i", "o", "n">>,
     <<"u", "n", "s", "a", "n", "i", "t", "i", "z", "e", "d">>,
     <<"q", "u", "e", "r", "y">>,
     <<"p", "a", "r", "a", "m", "e", "t", "e", "r">>}

FourTokens == FiveTokens \ {<<"s", "q", "l">>}

\* C20: for the expected description 'SQL injection via unsanitized query
\* parameter' the fuzzy match works on the 5 tokens sql, injection,
\* unsanitized, query, parameter, and a description matches exactly when it
\* contains at least 2 of them.
C20_FiveTokensTwoNeeded ==
    (matchPc = "done" /\ expectedDescription = SqlDescription) =>
        /\ Range(keywords) = FiveTokens
        /\ descMatch <=> Contained(FiveTokens) >= 2

\* C20, amended: the fuzzy match works on the 4 words longer than 3
\* characters, injection, unsanitized, query, parameter, and a description
\* matches exactly when it contains at least 2 of them; sql does not count.
C20_FourTokensTwoNeeded ==
    (matchPc = "done" /\ expectedDescription = SqlDescription) =>
        /\ Range(keywords) = FourTokens
        /\ Len(keywords) = 4
        /\ descMatch <=> Contained(FourTokens) >= 2

\* a description with sql and query and no other token was not matched
C20_Witness ==
    /\ matchPc = "done"
    /\ expectedDescription = SqlDescription
    /\ Contained(FiveTokens) = 2
    /\ Contained({<<"s", "q", "l">>, <<"q", "u", "e", "r", "y">>}) = 2
    /\ ~descMatch

-----------------------------------------------------------------------------
(* Claims about the benchmark runner *)

\* a benchmark run that got its provider and came to its end, the report file
\* written or the run aborted by an error of a case
BenchRunOver ==
    /\ cmd = "benchmark"
    /\ cprov # None
    /\ pc = "exited"
    /\ raised # "write failed"

C22_ProviderArgumentUsed ==
    (cmd = "benchmark" /\ opts.providerArg # "" /\ cprov # None) =>
        toLowerCase(cprov.name) = opts.providerArg

-----------------------------------------------------------------------------
(* Claims about the demo fixture page *)

\* C23: on the demo page the three reference errors fire: the one of
\* siteConfig on load, the one of trackPurchase on a click on an enabled buy
\* button after the load, the one of analytics once the timer's 5 seconds
\* after the load have passed.
C23_ThreeReferenceErrors ==
    demoLoaded =>
        /\ "siteConfig" \in demoErrors
        /\ demoClicks["buy-btn"] > 0 => "trackPurchase" \in demoErrors
        /\ demoClock >= TimerDelay => "analytics" \in demoErrors

-----------------------------------------------------------------------------
(* Claims about the review context *)

RECURSIVE SumOver(_, _)
SumOver(f, S) ==
    IF S = {} THEN 0
    ELSE LET x == CHOOSE y \in S : TRUE IN f[x] + SumOver(f, S \ {x})

\* the characters of file content in context.files
IncludedChars == SumOver(contextFiles, DOMAIN contextFiles)

\* C25: the characters of file content in context.files, changed files and
\* dependents together, never exceed the budget of 200,000.
C25_ContextWithinBudget == IncludedChars <= 200000

-----------------------------------------------------------------------------
(* Claims about the consumers of network errors *)

\* a line rendered for a record carries the failure text of a request-failed
\* record, the status of an HTTP-error record, and no field the record lacks
LineCarries(e, line) ==
    /\ "undefined" \notin Range(line)
    /\ "failure" \in DOMAIN e => e.failure \in Range(line)
    /\ "status" \in DOMAIN e => e.status \in Range(line)

\* C26: every consumer of networkErrors handles both shapes of record: the
\* line it renders carries the failure text of a request-failed record and
\* the status of an HTTP-error record, and is built from no field the record
\* does not have.
C26_ConsumersHandleBothShapes ==
    /\ "buildPrompt" \in rendered =>
          \A i \in DOMAIN networkErrors : LineCarries(networkErrors[i], promptLines[i])
    /\ "generateMarkdownReport" \in rendered =>
          \A i \in DOMAIN networkErrors : LineCarries(networkErrors[i], reportLines[i])

-----------------------------------------------------------------------------
(* Claims about the network logger *)

\* the entries a step completes, and the entries whose record it changes
CompletedByStep ==
    {i \in DOMAIN logRequests :
        logRequests[i].endTime = NoEndTime /\ logRequests'[i].endTime # NoEndTime}

ChangedByStep == {i \in DOMAIN logRequests : logRequests'[i] # logRequests[i]}

\* a step of the logger leaves the entries alone or completes one entry that
\* was not completed, the oldest such of its URL, and adds at most one failure,
\* for that entry
CompletesOldestOnce ==
    /\ Len(logRequests') >= Len(logRequests)
    /\ ChangedByStep = CompletedByStep
    /\ Cardinality(CompletedByStep) <= 1
    /\ \A i \in CompletedByStep :
          \A j \in DOMAIN logRequests :
              (j < i /\ logRequests[j].url = logRequests[i].url) =>
                  logRequests[j].endTime # NoEndTime
    /\ \/ logFailures' = logFailures
       \/ \E i \in CompletedByStep :
             \E by \in {"response", "requestfailed"} :
                 logFailures' = Append(logFailures, [entry |-> i, by |-> by])

\* C27: under any interleaving of request, response and requestfailed events,
\* several requests of one URL in flight included, an event completes the
\* oldest entry of its URL that is not completed, no entry is completed
\* twice, and failedRequests is at most totalRequests in every summary.
C27_LoggerCompletesOldestOnce ==
    /\ [][CompletesOldestOnce]_vars
    /\ [](LoggerSummary.failedRequests <= LoggerSummary.totalRequests)

\* two requests of one URL were in flight together; a response with an error
\* status completed the first and a failure the second
C27_Witness ==
    /\ Len(logRequests) >= 2
    /\ logRequests[1].url = logRequests[2].url
    /\ logRequests[1].endTime > logRequests[2].startTime
    /\ logRequests[2].endTime # NoEndTime
    /\ logFailures = <<[entry |-> 1, by |-> "response"],
                       [entry |-> 2, by |-> "requestfailed"]>>

\* C29: a review whose LLM response could not be parsed (parseResponse
\* returned its fallback object) is never presented as a clean review:
\* review-report.md does not carry the sentence that no issues were found.
C29_FallbackNotPresentedClean ==
    (cmd = "review" /\ cliReport = FallbackReport) =>
        \A i \in DOMAIN reportFile : reportFile[i].text # NoIssuesSentence

-----------------------------------------------------------------------------
(* Claims about the providers *)

RemoteProviders == {"anthropic", "openai", "codex", "gemini"}

\* C2: for every selectable provider name other than ollama, reviewCode issues
\* one request and returns the parsed report; only ollama does not implement
\* reviewCode (its call raises without a request).
C2_ReviewCodeOnEveryRemoteProvider ==
    (vpc = "called" /\ method = "reviewCode") =>
        IF provider.name \in RemoteProviders
        THEN provError # "request failed" =>
                /\ outcome = "returned"
                /\ requests = 1
                /\ report = parseResponse(llmText)
        ELSE /\ outcome = "raised"
             /\ requests = 0

\* The value of a variable as the claim reads it: the plain name, and the
\* INPUT_ name when the plain one is not set
Effective(e, n) == IF e[<<"plain", n>>] # "" THEN e[<<"plain", n>>] ELSE e[<<"input", n>>]

SpecificKeys ==
    <<[var |-> "ANTHROPIC_API_KEY", name |-> "anthropic", model |-> ""],
      [var |-> "OPENAI_API_KEY",    name |-> "openai",    model |-> ""],
      [var |-> "CODEX_API_KEY",     name |-> "codex",     model |-> "codex-mini-latest"],
      [var |-> "GEMINI_API_KEY",    name |-> "gemini",    model |-> ""]>>

\* The detection the claim describes
C6_Expected(e) ==
    LET set == {i \in 1..Len(SpecificKeys) : Effective(e, SpecificKeys[i].var) # ""}
        first == CHOOSE i \in set : \A j \in set : i <= j
    IN  IF Effective(e, "PROVIDER") # "" /\ Effective(e, "API_KEY") # ""
        THEN [provider |-> toLowerCase(Effective(e, "PROVIDER")),
              apiKey   |-> Effective(e, "API_KEY"),
              options  |-> NoOptions]
        ELSE IF set # {}
        THEN [provider |-> SpecificKeys[first].name,
              apiKey   |-> Effective(e, SpecificKeys[first].var),
              options  |-> [model |-> SpecificKeys[first].model, baseUrl |-> ""]]
        ELSE IF Effective(e, "PROVIDER") = "ollama"
        THEN [provider |-> "ollama",
              apiKey   |-> "",
              options  |->
                  [model   |-> IF Effective(e, "OLLAMA_MODEL") # ""
                               THEN Effective(e, "OLLAMA_MODEL") ELSE "llava",
                   baseUrl |-> IF Effective(e, "OLLAMA_BASE_URL") # ""
                               THEN Effective(e, "OLLAMA_BASE_URL")
                               ELSE "http://localhost:11434"]]
        ELSE None

\* C6: detectProvider returns the first match in the order (1) PROVIDER with
\* API_KEY, (2) the ANTHROPIC, OPENAI, CODEX (model codex-mini-latest), GEMINI
\* keys, (3) PROVIDER=ollama with its base URL and model or their defaults,
\* else nothing; each variable read under its plain name and its INPUT_ alias,
\* the plain name winning.
C6_DetectionOrderBothNames ==
    vpc # "start" => detected = C6_Expected(env)

-----------------------------------------------------------------------------
(* Claims about the parsers *)

IsFallbackFor(r, input) ==
    /\ r.kind = "fallback"
    /\ r.summary = "Failed to parse LLM response"
    /\ r.score = "null"
    /\ r.bugs = <<>>
    /\ r.recommendations = <<>>
    /\ r.parse_error # ""
    /\ r.raw_response = input

NotJsonAfterStripping(input) == ~JsonValid(StripFences(Trim(input)))

\* C7: parseResponse returns a value for every input text; when the text is
\* not valid JSON after fence-stripping the value is the fallback object:
\* summary 'Failed to parse LLM response', score null, empty bugs and
\* recommendations, a non-empty parse_error and raw_response equal to the
\* input verbatim.  Checked for the plain and for the fenced response.
C7_FallbackOnParseFailure ==
    /\ ppc # "received" =>
          /\ res.kind \in {"parsed", "fallback"}
          /\ NotJsonAfterStripping(text) => IsFallbackFor(res, text)
    /\ ppc = "fencedParsed" =>
          /\ resF.kind \in {"parsed", "fallback"}
          /\ NotJsonAfterStripping(fenced) => IsFallbackFor(resF, fenced)

\* C7 witness: a response that needed trimming and fence-stripping, was still
\* not JSON, and came back as the fallback object.
C7_Witness ==
    /\ ppc = "parsed"
    /\ Trim(text) # text
    /\ StartsWithFence(Trim(text))
    /\ StripFences(Trim(text)) # Trim(text)
    /\ res.kind = "fallback"

\* C8: for every valid JSON text J, parsing J wrapped in a fenced code block
\* (with or without a language tag) gives the same result as parsing J, for
\* parseResponse and for parseGeneratedFiles.
C8_FenceDoesNotChangeResult ==
    (ppc = "fencedParsed" /\ JsonValid(text)) =>
        (resF = res /\ filesF = files)

====
